---------------------------- MODULE Spec2Model ----------------------------
(***************************************************************************)
(* State-machine model of the browser-side components of the story-sharing *)
(* application: the StoryCard custom element, the Navbar and the           *)
(* LoginView / RegisterView forms.                                         *)
(*                                                                         *)
(* The specifications share the variables of this module; each drives one  *)
(* component or one aspect of it (the components do not interact):         *)
(*   SpecCard      StoryCard: assignments, renders, clicks                 *)
(*   SpecAssign    StoryCard: assignments of any value and their renders   *)
(*   SpecFav       StoryCard: the favorite handler and the store           *)
(*   SpecToggle    StoryCard: the favorite handler, store present or not   *)
(*   SpecShare     StoryCard: the share handler                            *)
(*   SpecLifecycle StoryCard: renders, clicks, removal from the document   *)
(*   SpecNav       Navbar: menu, auth state, active link                   *)
(*   SpecScroll    Navbar: the scroll effect                               *)
(*   SpecLogout    Navbar: logout and its deferred redirect                *)
(*   SpecLogin     LoginView / RegisterView: form, alerts                  *)
(*   SpecLink      LoginView / RegisterView: the link below the form       *)
(*   SpecRender    render() of the card, the views and the footer, repeated*)
(*   SpecSchedule  LoginView / RegisterView: scheduleNavigation            *)
(*   SpecAlerts    LoginView / RegisterView: alerts and their timers       *)
(*   SpecStyles    the style nodes the components add to the head          *)
(* StoryCard and Navbar are in src/src/scripts/view/components/footer.js,  *)
(* the two views in src/unnamed/part_000.                                  *)
(*                                                                         *)
(* JavaScript values are records tagged by t: undefined, null, NaN, a      *)
(* number (an exact decimal m / 10^e) or a string (a sequence of           *)
(* one-character strings).                                                 *)
(***************************************************************************)
EXTENDS Integers, Sequences, FiniteSets, TLC

VARIABLES
  \* ---- StoryCard ----
  _story,        \* this._story: Null or the validated story record
  attrs,         \* the attributes present on the element, among loading, compact
  dom,           \* the card's inner markup, as render() last wrote it
  listeners,     \* element class -> set of handlers attached to that element
  detailCount,   \* number of click closures attached to .btn-view-detail
  renders,       \* render() calls suspended at `await this._isFavorite()`
  helper,        \* whether window.indexedDBHelper exists
  store,         \* the external favorite store: the set of favorited story ids
  favCalls,      \* _handleFavoriteClick calls suspended at their store call
  shareCalls,    \* _handleShareClick calls suspended at share / writeText
  canShare,      \* whether navigator.share exists
  intent,        \* the favorite state the user's clicks ask for (history)
  lastToggle,    \* detail.isFavorited of the last story-favorite-toggle (history)
  showToast,     \* whether window.showToast exists
  toast,         \* the message of the last window.showToast call, "" before any
  assigned,      \* the value last assigned to card.story (history)
  \* ---- Navbar ----
  navReady,      \* _setup() has run
  isMenuOpen,    \* this.isMenuOpen
  menuActive,    \* .nav-menu has class 'active'
  bodyMenuOpen,  \* body has class 'menu-open'
  bodyOverflow,  \* document.body.style.overflow
  ariaExpanded,  \* #navToggle aria-expanded
  icon,          \* className of the <i> inside #navToggle
  localStorage,  \* the keys token, user, userId and name of local storage
  authDisplay,   \* style.display of the .nav-item-auth items
  guestDisplay,  \* style.display of the .nav-item-guest items
  hash,          \* window.location.hash
  activeLinks,   \* hrefs of the nav links holding class 'active'
  ariaCurrent,   \* hrefs of the nav links holding aria-current="page"
  closeTimers,   \* pending setTimeout(() => this._closeMenu(), 100) callbacks
  redirectTimers,\* pending setTimeout(() => location.hash = '#/masuk', 500)
  ticking,       \* the flag of the closure of _setupScrollEffect()
  rafPending,    \* animation-frame callbacks requested and not yet run
  scrollTop,     \* window.pageYOffset
  lastScrollTop, \* this.lastScrollTop
  headerScrolled,\* .app-header has class 'scrolled'
  headerHidden,  \* .app-header has class 'nav-hidden'
  \* ---- LoginView / RegisterView ----
  view,          \* the class of the view object: "login" or "register"
  nameField,     \* value of #name (RegisterView only)
  presenter,     \* this.presenter is set
  rendered,      \* render() has written the form
  email,         \* value of #email
  password,      \* value of #password
  submitCount,   \* submit listeners on the form in the document
  btnLoading,    \* #loginButton has class btn-loading and is disabled
  linkTimers,    \* pending link-binding timers of _initListeners (150 ms)
  linkListeners, \* click listeners on the register link in the document
  alerts,        \* the .alert elements inside #alertContainer, document order
  alertTimers,   \* pending alert timers
  nextAlert,     \* identity of the next alert element created
  clock,         \* the time of the page, in units of the shortest delay
  navTimers,     \* pending setTimeout(callback, delay) of scheduleNavigation
  navRan,        \* how many times each scheduled callback has run (history)
  nextTimer,     \* how many callbacks scheduleNavigation has been given
  \* ---- document ----
  head,          \* style id -> number of <style> nodes of that id in the head
  footer,        \* the markup of the page's <footer>, as Footer.render() last wrote it
  \* ---- observation of the last step ----
  trace          \* what the last operation was and what it did

cardVars  == <<_story, attrs, dom, listeners, detailCount, renders, helper, store,
               favCalls, shareCalls, canShare, intent, lastToggle,
               showToast, toast, assigned>>
navVars   == <<navReady, isMenuOpen, menuActive, bodyMenuOpen, bodyOverflow,
               ariaExpanded, icon, localStorage, authDisplay, guestDisplay, hash,
               activeLinks, ariaCurrent, closeTimers, redirectTimers,
               ticking, rafPending, scrollTop, lastScrollTop, headerScrolled,
               headerHidden>>
loginVars == <<view, nameField, presenter, rendered, email, password, submitCount,
               btnLoading, linkTimers, linkListeners, alerts, alertTimers,
               nextAlert, clock, navTimers, navRan, nextTimer>>
vars      == <<cardVars, navVars, loginVars, head, footer, trace>>

\* Variables an action of another part of the component leaves alone.
cardAux   == <<showToast, toast, assigned>>
scrollVars == <<ticking, rafPending, scrollTop, lastScrollTop, headerScrolled,
                headerHidden>>
schedVars == <<clock, navTimers, navRan, nextTimer>>

---------------------------------------------------------------------------
(* JavaScript values *)

Undefined == [t |-> "undef"]
Null      == [t |-> "null"]
NaN       == [t |-> "nan"]
Num(m, e) == [t |-> "num", m |-> m, e |-> e]
Str(s)    == [t |-> "str", s |-> s]

Digits == <<"0", "1", "2", "3", "4", "5", "6", "7", "8", "9">>

IsDigit(c) == \E i \in 1..10 : Digits[i] = c

DigitVal(c) == (CHOOSE i \in 1..10 : Digits[i] = c) - 1

Abs(n) == IF n < 0 THEN -n ELSE n

\* The decimal numeral of a natural number, as a sequence of characters.
RECURSIVE DigitsOf(_)
DigitsOf(n) == IF n < 10 THEN <<Digits[n + 1]>>
               ELSE DigitsOf(n \div 10) \o <<Digits[(n % 10) + 1]>>

\* The value of a sequence of digit characters (0 for the empty sequence).
RECURSIVE ValueOf(_)
ValueOf(ds) == IF ds = <<>> THEN 0
               ELSE 10 * ValueOf(SubSeq(ds, 1, Len(ds) - 1)) + DigitVal(ds[Len(ds)])

\* The longest run of digits of s that starts at position i.
RECURSIVE DigitRun(_, _)
DigitRun(s, i) == IF i <= Len(s) /\ IsDigit(s[i])
                  THEN <<s[i]>> \o DigitRun(s, i + 1)
                  ELSE <<>>

\* A decimal m / 10^e without trailing zeros in its fraction.
RECURSIVE Normalize(_, _)
Normalize(m, e) == IF e > 0 /\ m % 10 = 0 THEN Normalize(m \div 10, e - 1)
                   ELSE Num(m, e)

\* The position of the first character of s at or after i that is not a space.
RECURSIVE SkipSpaces(_, _)
SkipSpaces(s, i) == IF i <= Len(s) /\ s[i] = " " THEN SkipSpaces(s, i + 1) ELSE i

\* Number::toString for a decimal: sign, integer part, "." and the fraction.
NumberToString(n) ==
  LET ds   == DigitsOf(Abs(n.m))
      pad  == IF Len(ds) > n.e THEN ds
              ELSE [i \in 1..(n.e + 1 - Len(ds)) |-> "0"] \o ds
      ip   == SubSeq(pad, 1, Len(pad) - n.e)
      fp   == SubSeq(pad, Len(pad) - n.e + 1, Len(pad))
      sign == IF n.m < 0 THEN <<"-">> ELSE <<>>
  IN  sign \o ip \o (IF n.e > 0 THEN <<".">> \o fp ELSE <<>>)

\* ToString of a value, as string concatenation and template literals apply it.
JSToString(v) ==
  CASE v.t = "str"   -> v.s
    [] v.t = "num"   -> NumberToString(v)
    [] v.t = "undef" -> <<"u", "n", "d", "e", "f", "i", "n", "e", "d">>
    [] v.t = "null"  -> <<"n", "u", "l", "l">>
    [] v.t = "nan"   -> <<"N", "a", "N">>

\* parseFloat on a string: leading spaces, an optional sign, digits, an optional
\* fraction; anything after the longest such prefix is ignored; NaN when the
\* prefix holds no digit.  (Exponents and "Infinity" are outside the inputs.)
ParseFloatString(s) ==
  LET i0   == SkipSpaces(s, 1)
      neg  == i0 <= Len(s) /\ s[i0] = "-"
      i1   == IF i0 <= Len(s) /\ s[i0] \in {"+", "-"} THEN i0 + 1 ELSE i0
      ip   == DigitRun(s, i1)
      i2   == i1 + Len(ip)
      fp   == IF i2 <= Len(s) /\ s[i2] = "." THEN DigitRun(s, i2 + 1) ELSE <<>>
      mag  == ValueOf(ip \o fp)
  IN  IF ip = <<>> /\ fp = <<>> THEN NaN
      ELSE Normalize(IF neg THEN -mag ELSE mag, Len(fp))

\* parseFloat(x): the argument is converted to a string first.
parseFloat(x) == ParseFloatString(JSToString(x))

isNaN(v) == v.t = "nan"

\* Truthiness of the values a story field or a form field can hold.
Truthy(v) ==
  CASE v.t = "str" -> v.s # <<>>
    [] v.t = "num" -> v.m # 0
    [] OTHER       -> FALSE

---------------------------------------------------------------------------
(* StoryCard: story data *)

S(chars) == Str(chars)

\* Raw stories a host page assigns to card.story.  StoryA is the example of the
\* specification: {id:"1", name:"<script>", lat:"12.3", lon:"45.6",
\* createdAt:"invalid"}.
StoryA == [id |-> S(<<"1">>), name |-> S(<<"<", "script", ">">>),
           photoUrl |-> Undefined, description |-> Undefined,
           createdAt |-> S(<<"i", "n", "v", "a", "l", "i", "d">>),
           lat |-> S(<<"1", "2", ".", "3">>), lon |-> S(<<"4", "5", ".", "6">>),
           author |-> Undefined]

StoryB == [id |-> S(<<"2">>), name |-> S(<<"A", "n", "n">>),
           photoUrl |-> S(<<"b.jpg">>), description |-> S(<<"B", "&", "B">>),
           createdAt |-> S(<<"2", "0", "2", "4", "-", "0", "1", "-", "0", "1">>),
           lat |-> Num(-62, 1), lon |-> Num(1068, 1),
           author |-> S(<<"Bob">>)]

StoryC == [id |-> S(<<"1">>), name |-> Undefined,
           photoUrl |-> Undefined, description |-> Undefined,
           createdAt |-> Undefined,
           lat |-> S(<<"a", "b", "c">>), lon |-> S(<<"7">>),
           author |-> Undefined]

StoryD == [id |-> S(<<"3">>), name |-> S(<<"D", "e", "e">>),
           photoUrl |-> Undefined, description |-> Undefined,
           createdAt |-> S(<<"i", "n", "v", "a", "l", "i", "d">>),
           lat |-> Undefined, lon |-> S(<<"4", "5", ".", "6">>),
           author |-> Undefined]

Stories == {StoryA, StoryB, StoryC, StoryD}

\* What assigning to card.story may be given: a story, or a falsy value.
Assignable == Stories \cup {Null, Undefined}

\* Any value: also the falsy primitives "" and 0 and the truthy ones "x" and 5.
AnyValue == Assignable \cup {S(<<>>), Num(0, 0), S(<<"x">>), Num(5, 0)}

IsStory(v) == "id" \in DOMAIN v

\* Nothing has been assigned to card.story yet.
Unassigned == [t |-> "none"]

\* !story
IsFalsy(v) == ~IsStory(v) /\ ~Truthy(v)

\* story[f]: a primitive has none of the fields of a story.
Prop(v, f) == IF IsStory(v) THEN v[f] ELSE Undefined

\* div.textContent = str; return div.innerHTML: the text with &, < and >
\* replaced by their character references.
RECURSIVE EscapeText(_)
EscapeText(s) ==
  IF s = <<>> THEN <<>>
  ELSE (CASE s[1] = "&" -> <<"&amp;">>
          [] s[1] = "<" -> <<"&lt;">>
          [] s[1] = ">" -> <<"&gt;">>
          [] OTHER      -> <<s[1]>>) \o EscapeText(Tail(s))

_sanitizeHTML(str) == S(EscapeText(JSToString(str)))

\* x || y
Or(x, y) == IF Truthy(x) THEN x ELSE y

\* The coordinate kept as parseFloat returns it, NaN included.
_validateCoordinateUnchecked(coord) == parseFloat(coord)

_validateCoordinate(coord) ==
  LET num == parseFloat(coord)
  IN  IF ~isNaN(num) THEN num ELSE Null

\* `story-${Date.now()}-${Math.random()...}`: an id no story of the page holds.
_generateId == S(<<"story-", "generated">>)

_getPlaceholderImage == S(<<"data:image/svg+xml">>)

\* Time values count days; Date parsing accepts the form YYYY-MM-DD.
TwoDigits(s, i) == 10 * DigitVal(s[i]) + DigitVal(s[i + 1])

DateParse(v) ==
  LET s == JSToString(v)
  IN  IF /\ Len(s) = 10
         /\ \A i \in {1, 2, 3, 4, 6, 7, 9, 10} : IsDigit(s[i])
         /\ s[5] = "-" /\ s[8] = "-"
         /\ TwoDigits(s, 6) \in 1..12
         /\ TwoDigits(s, 9) \in 1..31
      THEN Num((ValueOf(SubSeq(s, 1, 4)) * 12 + TwoDigits(s, 6) - 1) * 31
                 + TwoDigits(s, 9) - 1, 0)
      ELSE NaN

Pad2(n) == IF n < 10 THEN <<"0">> \o DigitsOf(n) ELSE DigitsOf(n)

Pad4(n) == [i \in 1..(4 - Len(DigitsOf(n))) |-> "0"] \o DigitsOf(n)

\* Date.prototype.toISOString of a valid time value.
DateToISO(tv) ==
  S(Pad4(tv.m \div 372) \o <<"-">> \o Pad2(((tv.m \div 31) % 12) + 1)
      \o <<"-">> \o Pad2((tv.m % 31) + 1))

\* new Date(): the current time of the page.
NowString == S(<<"2", "0", "2", "4", "-", "0", "1", "-", "0", "4">>)

Now == DateParse(NowString)

_validateStoryData(story) ==
  [id          |-> Or(Prop(story, "id"), _generateId),
   name        |-> _sanitizeHTML(Or(Prop(story, "name"), S(<<"Untitled Story">>))),
   photoUrl    |-> Or(Prop(story, "photoUrl"), _getPlaceholderImage),
   description |-> _sanitizeHTML(Or(Prop(story, "description"),
                                    S(<<"No description">>))),
   createdAt   |-> Or(Prop(story, "createdAt"), DateToISO(Now)),
   lat         |-> _validateCoordinate(Prop(story, "lat")),
   lon         |-> _validateCoordinate(Prop(story, "lon")),
   author      |-> Or(Prop(story, "author"), S(<<"Anonymous">>))]

_formatDate(dateString) ==
  LET date == DateParse(dateString)
  IN  IF isNaN(date) THEN S(<<"Invalid Date">>)
      ELSE S(<<"id-ID:">> \o DateToISO(date).s)

_formatRelativeTime(dateString) ==
  LET date == DateParse(dateString)
      days == IF isNaN(date) THEN NaN ELSE Num(Now.m - date.m, 0)
  IN  IF ~isNaN(days) /\ days.m > 7 THEN _formatDate(dateString)
      ELSE IF ~isNaN(days) /\ days.m > 0
           THEN S(DigitsOf(days.m) \o <<" hari yang lalu">>)
           ELSE S(<<"Baru saja">>)

\* new Date(createdAt).toISOString() throws RangeError on an invalid date.
ToISOStringThrows(createdAt) == isNaN(DateParse(createdAt))

---------------------------------------------------------------------------
(* StoryCard: markup, listeners, render *)

MaxPending == 2     \* render() calls suspended at the favorite lookup at once

MaxFavCalls == 2    \* favorite handler calls suspended at the store at once

NoEvents == <<>>

Step(op, target, ran, ev) == [op |-> op, target |-> target, ran |-> ran, ev |-> ev]

\* this.dispatchEvent(new CustomEvent(eventName, {detail, ...}))
_dispatchEvent(eventName, detail) == [name |-> eventName, detail |-> detail]

BlankMarkup == [kind |-> "blank", elems |-> {}]

\* _renderEmpty(): the placeholder article, with no interactive element.
_renderEmpty == [kind |-> "empty", elems |-> {}]

hasLocation(s) == s.lat # Null /\ s.lon # Null

\* The interactive elements and variants the template of render() writes, each
\* named by the class the template gives it.
TemplateElems(s) ==
  {"story-image", "btn-favorite", "btn-share", "btn-view-detail"}
    \cup (IF hasLocation(s) THEN {"location-badge", "btn-location"}
          ELSE {"no-location"})

\* The template literal of render(), for the story fields and the compact flag
\* read before the await and the favorite state the lookup returned.
Template(s, isCompact, isFavorited) ==
  [kind      |-> "card",
   storyId   |-> s.id,
   compact   |-> isCompact,
   favActive |-> isFavorited,
   src       |-> s.photoUrl,
   title     |-> s.name,
   author    |-> s.author,
   datetime  |-> DateToISO(DateParse(s.createdAt)),
   dateTitle |-> _formatDate(s.createdAt),
   dateText  |-> _formatRelativeTime(s.createdAt),
   dataLat   |-> IF hasLocation(s) THEN S(JSToString(s.lat)) ELSE Undefined,
   dataLon   |-> IF hasLocation(s) THEN S(JSToString(s.lon)) ELSE Undefined,
   elems     |-> TemplateElems(s)]

\* The selectors _attachEventListeners() queries, with the event and the bound
\* handler it adds to the element found.
FavoriteSelector == "btn-favorite-modern"

ShareSelector == "btn-share-glass"

Bindings ==
  {<<"btn-location", "click", "_handleLocationClick">>,
   <<"story-image", "load", "_handleImageLoad">>,
   <<"story-image", "error", "_handleImageError">>,
   <<FavoriteSelector, "click", "_handleFavoriteClick">>,
   <<ShareSelector, "click", "_handleShareClick">>}

\* this.querySelector('.' + cls) finds an element iff the markup holds one.
QuerySelector(d, cls) == cls \in d.elems

_attachEventListeners(d) == {b \in Bindings : QuerySelector(d, b[1])}

DetailAttached(d) == IF QuerySelector(d, "btn-view-detail") THEN 1 ELSE 0

\* _removeEventListeners(): the listeners left on the card's elements.  It
\* queries the selectors of the four bound handlers and removes those; the
\* click closure of .btn-view-detail is not among them.
_removeEventListeners(d, ls) == ls \ {b \in Bindings : QuerySelector(d, b[1])}

\* The buttons of a card and the handler each is meant to run.
Buttons == {"btn-location", "btn-favorite", "btn-share", "btn-view-detail"}

HandlerOf(b) ==
  CASE b = "btn-location"  -> "_handleLocationClick"
    [] b = "btn-favorite"  -> "_handleFavoriteClick"
    [] b = "btn-share"     -> "_handleShareClick"
    [] OTHER               -> "detail"

\* Host code runs to completion: while the favorite lookup of a render is a
\* resolved promise (no helper), only more synchronous host code or that
\* render's continuation can run next.
Settled == helper \/ renders = <<>>

\* Writing innerHTML replaces every element: listeners on the old elements go
\* with them, and buttons captured by suspended handlers are no longer shown.
Detach(calls) == [i \in 1..Len(calls) |-> [calls[i] EXCEPT !.live = FALSE]]

\* render() up to `await this._isFavorite()`.
RenderStart(st) ==
  IF st = Null
  THEN /\ dom' = _renderEmpty
       /\ listeners' = {}
       /\ detailCount' = 0
       /\ favCalls' = Detach(favCalls)
       /\ UNCHANGED renders
  ELSE /\ renders' = Append(renders, [s |-> st, compact |-> "compact" \in attrs'])
       /\ UNCHANGED <<dom, listeners, detailCount, favCalls>>

\* set story(story)
SetStory(v) ==
  /\ Len(renders) < MaxPending
  /\ attrs' = attrs
  /\ assigned' = v
  /\ IF IsFalsy(v)
     THEN /\ trace' = Step("setStoryInvalid", "", 0, NoEvents)
          /\ UNCHANGED <<_story, dom, listeners, detailCount, renders, favCalls>>
     ELSE /\ _story' = _validateStoryData(v)
          /\ RenderStart(_story')
          /\ trace' = Step("setStory", "", 0, NoEvents)
  /\ UNCHANGED <<helper, store, shareCalls, canShare, intent, lastToggle,
                 showToast, toast, navVars, loginVars, head, footer>>

\* setAttribute / removeAttribute of an observed attribute, and
\* attributeChangedCallback (the old and the new value differ).
AttributeChanged(name) ==
  /\ Len(renders) < MaxPending
  /\ attrs' = IF name \in attrs THEN attrs \ {name} ELSE attrs \cup {name}
  /\ RenderStart(_story)
  /\ trace' = Step("attributeChanged", name, 0, NoEvents)
  /\ UNCHANGED <<_story, helper, store, shareCalls, canShare, intent, lastToggle,
                 cardAux, navVars, loginVars, head, footer>>

\* card.render(), called by the page with the state as it is.
Render ==
  /\ Len(renders) < MaxPending
  /\ attrs' = attrs
  /\ RenderStart(_story)
  /\ trace' = Step("cardRender", "", 0, NoEvents)
  /\ UNCHANGED <<_story, helper, store, shareCalls, canShare, intent, lastToggle,
                 cardAux, navVars, loginVars, head, footer>>

Remove(seq, i) == SubSeq(seq, 1, i - 1) \o SubSeq(seq, i + 1, Len(seq))

\* A card that never shows the answer of the lookup.
_isFavoriteNever(hasHelper, lookupFails, inStore) == FALSE

\* _isFavorite(): false without the helper; with it, the answer of
\* indexedDBHelper.isFavorite(id), or false when that call rejects.
_isFavorite(hasHelper, lookupFails, inStore) ==
  IF ~hasHelper THEN FALSE
  ELSE IF lookupFails THEN FALSE ELSE inStore

\* The rest of render() once the lookup of suspended call i has settled:
\* isFavorite resolved with the store's answer, or rejected (answer false).
RenderResume(i, lookupFails) ==
  /\ i \in 1..Len(renders)
  /\ helper \/ (i = 1 /\ ~lookupFails)
  /\ LET r == renders[i]
         isFavorited == _isFavorite(helper, lookupFails, r.s.id \in store)
     IN  IF ToISOStringThrows(r.s.createdAt)
         THEN /\ trace' = Step("renderRejected", "", 0, NoEvents)
              /\ UNCHANGED <<dom, listeners, detailCount, favCalls>>
         ELSE /\ dom' = Template(r.s, r.compact, isFavorited)
              /\ listeners' = _attachEventListeners(dom')
              /\ detailCount' = DetailAttached(dom')
              /\ favCalls' = Detach(favCalls)
              /\ trace' = Step("rendered",
                               IF lookupFails THEN "lookupRejected" ELSE "lookupResolved",
                               0, NoEvents)
  /\ renders' = Remove(renders, i)
  /\ UNCHANGED <<_story, attrs, helper, store, shareCalls, canShare, intent, lastToggle,
                 cardAux, navVars, loginVars, head, footer>>

---------------------------------------------------------------------------
(* StoryCard: clicks and handlers *)

MaxShareCalls == 2  \* share handler calls suspended at once

MaxClicks == 3      \* overlapping favorite clicks counted (more count as this many)

\* Whether a click on the element of class b runs bound handler h.
Attached(b, h) == <<b, "click", h>> \in listeners

\* _handleLocationClick(event): the events it dispatches, for the data
\* attributes of the button clicked.
_handleLocationClick(btn) ==
  LET lat == parseFloat(btn.dataLat)
      lon == parseFloat(btn.dataLon)
  IN  IF isNaN(lat) \/ isNaN(lon) THEN NoEvents
      ELSE <<_dispatchEvent("story-location-click",
                            [_story EXCEPT !.lat = lat, !.lon = lon])>>

\* _handleFavoriteClick(event) up to its store call, for the favorite button
\* of the markup shown: the active class is read, then the store is called.
FavoriteBegin ==
  /\ intent' = IF ~helper THEN intent
               ELSE IF favCalls = <<>>
                    THEN [clicks |-> 1, want |-> ~dom.favActive, ok |-> TRUE]
                    ELSE [intent EXCEPT !.clicks = IF @ < MaxClicks THEN @ + 1 ELSE @,
                                        !.want = ~@]
  /\ favCalls' = IF ~helper THEN favCalls
                 ELSE Append(favCalls, [isFavorited |-> dom.favActive,
                                        id |-> _story.id, live |-> TRUE])

\* _handleShareClick(event) up to its await.
ShareBegin ==
  shareCalls' = Append(shareCalls, [api |-> IF canShare THEN "share" ELSE "clipboard"])

ClickLocation ==
  /\ Settled
  /\ "btn-location" \in dom.elems
  /\ LET ran == Attached("btn-location", "_handleLocationClick")
     IN  trace' = Step("click", "btn-location", IF ran THEN 1 ELSE 0,
                       IF ran THEN _handleLocationClick(dom) ELSE NoEvents)
  /\ UNCHANGED <<cardVars, navVars, loginVars, head, footer>>

ClickFavorite ==
  /\ Settled
  /\ "btn-favorite" \in dom.elems
  /\ Len(favCalls) < MaxFavCalls
  /\ LET ran == Attached("btn-favorite", "_handleFavoriteClick")
     IN  /\ IF ran THEN FavoriteBegin ELSE UNCHANGED <<favCalls, intent>>
         /\ trace' = Step("click", "btn-favorite", IF ran THEN 1 ELSE 0, NoEvents)
  /\ UNCHANGED <<_story, attrs, dom, listeners, detailCount, renders, helper,
                 store, shareCalls, canShare, lastToggle, cardAux, navVars, loginVars, head, footer>>

ClickShare ==
  /\ Settled
  /\ "btn-share" \in dom.elems
  /\ Len(shareCalls) < MaxShareCalls
  /\ LET ran == Attached("btn-share", "_handleShareClick")
     IN  /\ IF ran THEN ShareBegin ELSE UNCHANGED shareCalls
         /\ trace' = Step("click", "btn-share", IF ran THEN 1 ELSE 0, NoEvents)
  /\ UNCHANGED <<_story, attrs, dom, listeners, detailCount, renders, helper,
                 store, favCalls, canShare, intent, lastToggle, cardAux, navVars, loginVars, head, footer>>

\* Each closure attached to .btn-view-detail dispatches story-detail-click.
ClickDetail ==
  /\ Settled
  /\ "btn-view-detail" \in dom.elems
  /\ trace' = Step("click", "btn-view-detail", detailCount,
                   [i \in 1..detailCount |->
                      _dispatchEvent("story-detail-click", _story)])
  /\ UNCHANGED <<cardVars, navVars, loginVars, head, footer>>

\* disconnectedCallback(): the card is removed from the document.
disconnectedCallback ==
  /\ Settled
  /\ listeners' = _removeEventListeners(dom, listeners)
  /\ trace' = Step("disconnected", "", 0, NoEvents)
  /\ UNCHANGED <<_story, attrs, dom, detailCount, renders, helper, store, favCalls,
                 shareCalls, canShare, intent, lastToggle, cardAux, navVars,
                 loginVars, head, footer>>

\* _handleFavoriteClick called by the page with the card's favorite button as
\* event.currentTarget.
InvokeFavorite ==
  /\ Settled
  /\ "btn-favorite" \in dom.elems
  /\ Len(favCalls) < MaxFavCalls
  /\ FavoriteBegin
  /\ trace' = Step("_handleFavoriteClick", "btn-favorite", 1, NoEvents)
  /\ UNCHANGED <<_story, attrs, dom, listeners, detailCount, renders, helper,
                 store, shareCalls, canShare, lastToggle, cardAux, navVars, loginVars, head, footer>>

\* The handler with a catch block that calls window.showToast without testing
\* that it exists: a TypeError leaves the handler's promise rejected.
FavoriteAfterAwaitUnguardedToast(c, resolved, hasToast, st) ==
  IF resolved
  THEN [completed |-> TRUE, sets |-> TRUE, active |-> ~c.isFavorited,
        toast |-> IF ~hasToast THEN ""
                  ELSE IF c.isFavorited THEN "Dihapus dari favorit"
                       ELSE "Ditambahkan ke favorit",
        ev |-> <<_dispatchEvent("story-favorite-toggle",
                                [story |-> st, isFavorited |-> ~c.isFavorited])>>]
  ELSE [completed |-> hasToast, sets |-> FALSE, active |-> c.isFavorited,
        toast |-> IF hasToast THEN "Gagal mengubah favorit" ELSE "",
        ev |-> NoEvents]

\* The handler reporting the state read at the click, not the new one.
FavoriteAfterAwaitStaleFlag(c, resolved, hasToast, st) ==
  IF resolved
  THEN [completed |-> TRUE, sets |-> TRUE, active |-> ~c.isFavorited,
        toast |-> IF ~hasToast THEN ""
                  ELSE IF c.isFavorited THEN "Dihapus dari favorit"
                       ELSE "Ditambahkan ke favorit",
        ev |-> <<_dispatchEvent("story-favorite-toggle",
                                [story |-> st, isFavorited |-> c.isFavorited])>>]
  ELSE [completed |-> TRUE, sets |-> FALSE, active |-> c.isFavorited,
        toast |-> IF hasToast THEN "Gagal mengubah favorit" ELSE "",
        ev |-> NoEvents]

\* What _handleFavoriteClick does after the store call of call c: whether it
\* writes the button (class and labels) and to what, the toast it shows ("" for
\* none), the events it dispatches and whether it completes without throwing.
\* The catch block calls window.showToast only if it exists.
FavoriteAfterAwait(c, resolved, hasToast, st) ==
  IF resolved
  THEN [completed |-> TRUE, sets |-> TRUE, active |-> ~c.isFavorited,
        toast |-> IF ~hasToast THEN ""
                  ELSE IF c.isFavorited THEN "Dihapus dari favorit"
                       ELSE "Ditambahkan ke favorit",
        ev |-> <<_dispatchEvent("story-favorite-toggle",
                                [story |-> st, isFavorited |-> ~c.isFavorited])>>]
  ELSE [completed |-> TRUE, sets |-> FALSE, active |-> c.isFavorited,
        toast |-> IF hasToast THEN "Gagal mengubah favorit" ELSE "",
        ev |-> NoEvents]

\* The rest of _handleFavoriteClick once the store call of suspended call i has
\* settled: resolved (the store holds the change) or rejected.
FavoriteSettle(i, resolved) ==
  /\ Settled
  /\ i \in 1..Len(favCalls)
  /\ LET c == favCalls[i]
         o == FavoriteAfterAwait(c, resolved, showToast, _story)
     IN  /\ store' = IF ~resolved THEN store
                     ELSE IF c.isFavorited THEN store \ {c.id} ELSE store \cup {c.id}
         /\ dom' = IF c.live /\ o.sets THEN [dom EXCEPT !.favActive = o.active]
                   ELSE dom
         /\ toast' = IF o.toast = "" THEN toast ELSE o.toast
         /\ lastToggle' = IF o.ev = NoEvents THEN lastToggle
                          ELSE [seen |-> TRUE, isFavorited |-> ~c.isFavorited]
         /\ intent' = IF resolved THEN intent ELSE [intent EXCEPT !.ok = FALSE]
         /\ trace' = Step(IF ~o.completed THEN "favoriteThrew"
                          ELSE IF resolved THEN "favoriteDone" ELSE "favoriteFailed",
                          "btn-favorite", 0, o.ev)
  /\ favCalls' = Remove(favCalls, i)
  /\ UNCHANGED <<_story, attrs, listeners, detailCount, renders, helper,
                 shareCalls, canShare, showToast, assigned, navVars, loginVars, head, footer>>

\* _handleShareClick called by the page with the card's share button as
\* event.currentTarget.
InvokeShare ==
  /\ Settled
  /\ _story # Null
  /\ Len(shareCalls) < MaxShareCalls
  /\ ShareBegin
  /\ trace' = Step("_handleShareClick", "btn-share", 1, NoEvents)
  /\ UNCHANGED <<_story, attrs, dom, listeners, detailCount, renders, helper,
                 store, favCalls, canShare, intent, lastToggle, cardAux, navVars,
                 loginVars, head, footer>>

\* How navigator.share / navigator.clipboard.writeText settles: resolved,
\* rejected with an AbortError (the user closed the share sheet), or rejected
\* with another error.
ShareOutcomes == {"resolved", "aborted", "rejected"}

\* The handler without its try / catch blocks: a rejection of the awaited call
\* leaves the handler's promise rejected and nothing is dispatched.
ShareAfterAwaitUncaught(c, outcome, hasToast, st) ==
  IF outcome = "resolved"
  THEN [completed |-> TRUE,
        toast |-> IF c.api = "clipboard" /\ hasToast
                  THEN "Link disalin ke clipboard" ELSE "",
        ev |-> <<_dispatchEvent("story-share-click", st)>>]
  ELSE [completed |-> FALSE, toast |-> "", ev |-> NoEvents]

\* What _handleShareClick does after the awaited call of call c has settled:
\* whether it completes without throwing, the toast it shows ("" for none; the
\* check mark of the message is left out) and the events it dispatches.
ShareAfterAwait(c, outcome, hasToast, st) ==
  [completed |-> TRUE,
   toast |-> IF c.api = "share" \/ ~hasToast THEN ""
             ELSE IF outcome = "resolved" THEN "Link disalin ke clipboard"
                  ELSE "Gagal menyalin link",
   ev |-> <<_dispatchEvent("story-share-click", st)>>]

\* The rest of _handleShareClick once the awaited call of suspended call i has
\* settled.
ShareSettle(i, outcome) ==
  /\ Settled
  /\ i \in 1..Len(shareCalls)
  /\ LET c == shareCalls[i]
         o == ShareAfterAwait(c, outcome, showToast, _story)
     IN  /\ toast' = IF o.toast = "" THEN toast ELSE o.toast
         /\ trace' = Step(IF o.completed THEN "shareDone" ELSE "shareThrew",
                          c.api, 1, o.ev)
  /\ shareCalls' = Remove(shareCalls, i)
  /\ UNCHANGED <<_story, attrs, dom, listeners, detailCount, renders, helper,
                 store, favCalls, canShare, intent, lastToggle, showToast, assigned,
                 navVars, loginVars, head, footer>>

---------------------------------------------------------------------------
(* Navbar *)

MaxTimers == 2      \* pending timers of one kind at once

\* Hash routes, character by character.
Root     == <<"#", "/">>
About    == <<"#", "/", "a", "b", "o", "u", "t">>
AboutSub == <<"#", "/", "a", "b", "o", "u", "t", "/", "u", "s">>
Masuk    == <<"#", "/", "m", "a", "s", "u", "k">>
Daftar   == <<"#", "/", "d", "a", "f", "t", "a", "r">>
NoHash   == <<>>

\* A route that is a sibling of '#/about', not a sub-route of it.
AboutSibling == <<"#", "/", "a", "b", "o", "u", "t", "x">>

\* The hrefs of the a[href^="#"] links inside .nav-menu.
NavLinks == {Root, About, Masuk, Daftar}

\* The values window.location.hash takes.
Hashes == {NoHash, Root, About, AboutSub, AboutSibling, Masuk, Daftar}

\* String.prototype.startsWith
StartsWith(s, prefix) ==
  Len(prefix) <= Len(s) /\ SubSeq(s, 1, Len(prefix)) = prefix

Token == S(<<"t", "o", "k">>)

Empty == S(<<>>)

\* What the login code of the page leaves in local storage, and what a guest has.
LoggedOut == [token |-> Null, user |-> Null, userId |-> Null, name |-> Null]

Stored(tok) == [token |-> tok, user |-> S(<<"{", "}">>), userId |-> S(<<"u", "1">>),
                name |-> S(<<"A", "n", "n">>)]

Storages == {LoggedOut, Stored(Token), Stored(Empty)}

\* The menu state: the flag and the indicators _toggleMenu and _closeMenu write.
Menu == [isMenuOpen |-> isMenuOpen, menuActive |-> menuActive,
         bodyMenuOpen |-> bodyMenuOpen, bodyOverflow |-> bodyOverflow,
         ariaExpanded |-> ariaExpanded, icon |-> icon]

SetMenu(m) ==
  /\ isMenuOpen' = m.isMenuOpen
  /\ menuActive' = m.menuActive
  /\ bodyMenuOpen' = m.bodyMenuOpen
  /\ bodyOverflow' = m.bodyOverflow
  /\ ariaExpanded' = m.ariaExpanded
  /\ icon' = m.icon

menuVars == <<isMenuOpen, menuActive, bodyMenuOpen, bodyOverflow, ariaExpanded, icon>>

\* _toggleMenu() that leaves the icon of the toggle alone.
_toggleMenuKeepsIcon(m) ==
  LET open == ~m.isMenuOpen
  IN  [isMenuOpen   |-> open,
       menuActive   |-> open,
       bodyMenuOpen |-> open,
       ariaExpanded |-> IF open THEN "true" ELSE "false",
       icon         |-> m.icon,
       bodyOverflow |-> IF open THEN "hidden" ELSE ""]

_toggleMenu(m) ==
  LET open == ~m.isMenuOpen
  IN  [isMenuOpen   |-> open,
       menuActive   |-> open,
       bodyMenuOpen |-> open,
       ariaExpanded |-> IF open THEN "true" ELSE "false",
       icon         |-> IF open THEN "fas fa-times" ELSE "fas fa-bars",
       bodyOverflow |-> IF open THEN "hidden" ELSE ""]

\* _closeMenu() without its last statement: the body keeps overflow: hidden.
_closeMenuKeepsOverflow(m) ==
  IF ~m.isMenuOpen THEN m
  ELSE [isMenuOpen   |-> FALSE,
        menuActive   |-> FALSE,
        bodyMenuOpen |-> FALSE,
        ariaExpanded |-> "false",
        icon         |-> "fas fa-bars",
        bodyOverflow |-> m.bodyOverflow]

_closeMenu(m) ==
  IF ~m.isMenuOpen THEN m
  ELSE [isMenuOpen   |-> FALSE,
        menuActive   |-> FALSE,
        bodyMenuOpen |-> FALSE,
        ariaExpanded |-> "false",
        icon         |-> "fas fa-bars",
        bodyOverflow |-> ""]

\* What a step did to the menu, for the trace.
MenuNote(before, after) ==
  IF before.isMenuOpen /\ ~after.isMenuOpen THEN <<[name |-> "menuClosed"]>>
  ELSE IF ~before.isMenuOpen /\ after.isMenuOpen THEN <<[name |-> "menuOpened"]>>
       ELSE NoEvents

\* The document click listener of _bindOutsideClick(), for a click that lands
\* inside .nav-menu ("menu"), inside #navToggle ("toggle") or elsewhere.
OutsideClick(m, target) ==
  IF ~m.isMenuOpen THEN m
  ELSE IF target # "menu" /\ target # "toggle" THEN _closeMenu(m)
       ELSE m

\* The toggle's click listener calls e.stopPropagation().
StopsPropagation == TRUE

\* The click listener of _bindMobileToggle(), then the document listener if the
\* event reaches the document.
ToggleClicked(m) ==
  LET toggled == _toggleMenu(m)
  IN  IF StopsPropagation THEN toggled ELSE OutsideClick(toggled, "toggle")

\* _isAuthenticated() without the test for the empty string.
_isAuthenticatedNotNull(ls) == ls.token # Null

_isAuthenticated(ls) == ls.token # Null /\ ls.token # Empty

\* _updateAuthState(): the display style written to the two groups of items.
AuthDisplayOf(ls)  == IF _isAuthenticated(ls) THEN "" ELSE "none"

GuestDisplayOf(ls) == IF _isAuthenticated(ls) THEN "none" ELSE ""

_updateAuthState(ls) ==
  /\ authDisplay' = AuthDisplayOf(ls)
  /\ guestDisplay' = GuestDisplayOf(ls)

\* The isActive test by equality alone.
IsActiveExact(href, currentHash) ==
  \/ href = currentHash
  \/ (currentHash = Root /\ href = Root)

\* The isActive test without the exclusion of '#/' from the prefix rule.
IsActiveAnyPrefix(href, currentHash) ==
  \/ href = currentHash
  \/ StartsWith(currentHash, href)

\* The isActive test of _updateActiveLink().
IsActive(href, currentHash) ==
  \/ href = currentHash
  \/ (currentHash = Root /\ href = Root)
  \/ (StartsWith(currentHash, href) /\ href # Root)

\* window.location.hash || '#/'
CurrentHash(h) == IF h = NoHash THEN Root ELSE h

_updateActiveLink(h) ==
  /\ activeLinks' = {href \in NavLinks : IsActive(href, CurrentHash(h))}
  /\ ariaCurrent' = {href \in NavLinks : IsActive(href, CurrentHash(h))}

\* _setup(): elements cached, listeners bound, auth state and active link set.
NavSetup ==
  /\ ~navReady
  /\ navReady' = TRUE
  /\ _updateAuthState(localStorage)
  /\ _updateActiveLink(hash)
  /\ trace' = Step("setup", "", 0, NoEvents)
  /\ UNCHANGED <<menuVars, localStorage, hash, closeTimers, redirectTimers,
                 scrollVars, cardVars, loginVars, head, footer>>

\* A click on #navToggle.
ToggleClick ==
  /\ navReady
  /\ SetMenu(ToggleClicked(Menu))
  /\ trace' = Step("click", "toggle", 1, MenuNote(Menu, ToggleClicked(Menu)))
  /\ UNCHANGED <<navReady, localStorage, authDisplay, guestDisplay, hash,
                 activeLinks, ariaCurrent, closeTimers, redirectTimers,
                 scrollVars, cardVars, loginVars, head, footer>>

\* A click that reaches the document: inside the menu (not on a link) or
\* outside the menu and the toggle.
DocumentClick(target) ==
  /\ navReady
  /\ target \in {"menu", "outside"}
  /\ SetMenu(OutsideClick(Menu, target))
  /\ trace' = Step("click", target, 1, MenuNote(Menu, OutsideClick(Menu, target)))
  /\ UNCHANGED <<navReady, localStorage, authDisplay, guestDisplay, hash,
                 activeLinks, ariaCurrent, closeTimers, redirectTimers,
                 scrollVars, cardVars, loginVars, head, footer>>

\* A click on a link of the menu: its listener defers a _closeMenu() when the
\* window is at most 768 px wide, and the click reaches the document.
LinkClick(narrow) ==
  /\ navReady
  /\ closeTimers < MaxTimers
  /\ closeTimers' = IF narrow THEN closeTimers + 1 ELSE closeTimers
  /\ SetMenu(OutsideClick(Menu, "menu"))
  /\ trace' = Step("click", "link", 1, NoEvents)
  /\ UNCHANGED <<navReady, localStorage, authDisplay, guestDisplay, hash,
                 activeLinks, ariaCurrent, redirectTimers, scrollVars, cardVars, loginVars, head, footer>>

\* The deferred _closeMenu() of a link click.
CloseTimerFires ==
  /\ closeTimers > 0
  /\ closeTimers' = closeTimers - 1
  /\ SetMenu(_closeMenu(Menu))
  /\ trace' = Step("closeTimer", "", 0, NoEvents)
  /\ UNCHANGED <<navReady, localStorage, authDisplay, guestDisplay, hash,
                 activeLinks, ariaCurrent, redirectTimers, scrollVars, cardVars, loginVars, head, footer>>

Keys == {"Escape", "Tab", "a"}

\* The keydown listener of _bindKeyboardNav(); the focus trap of Tab moves the
\* focus only.
KeyDown(key) ==
  /\ navReady
  /\ SetMenu(IF key = "Escape" /\ isMenuOpen THEN _closeMenu(Menu) ELSE Menu)
  /\ trace' = Step("keydown", key, 1,
                   IF key = "Escape" THEN MenuNote(Menu, _closeMenu(Menu)) ELSE NoEvents)
  /\ UNCHANGED <<navReady, localStorage, authDisplay, guestDisplay, hash,
                 activeLinks, ariaCurrent, closeTimers, redirectTimers,
                 scrollVars, cardVars, loginVars, head, footer>>

\* The hash changes to h and the hashchange listener runs.
HashChange(h) ==
  /\ navReady
  /\ h # hash
  /\ hash' = h
  /\ _updateActiveLink(h)
  /\ SetMenu(_closeMenu(Menu))
  /\ trace' = Step("hashchange", "", 1, MenuNote(Menu, _closeMenu(Menu)))
  /\ UNCHANGED <<navReady, localStorage, authDisplay, guestDisplay, closeTimers,
                 redirectTimers, scrollVars, cardVars, loginVars, head, footer>>

\* Code of the page outside the navbar writes local storage (a login, a logout
\* elsewhere); no event is dispatched by the write itself.
StorageWrite(ls) ==
  /\ ls # localStorage
  /\ localStorage' = ls
  /\ trace' = Step("storageWrite", "", 0, NoEvents)
  /\ UNCHANGED <<navReady, menuVars, authDisplay, guestDisplay, hash, activeLinks,
                 ariaCurrent, closeTimers, redirectTimers, scrollVars, cardVars, loginVars, head, footer>>

\* window.dispatchEvent(new Event('authChanged')) and the navbar's listener.
AuthChanged ==
  /\ navReady
  /\ _updateAuthState(localStorage)
  /\ trace' = Step("authChanged", "", 1, NoEvents)
  /\ UNCHANGED <<navReady, menuVars, localStorage, hash, activeLinks, ariaCurrent,
                 closeTimers, redirectTimers, scrollVars, cardVars, loginVars, head, footer>>

\* _handleLogout() that does not ask for confirmation.
_handleLogoutUnasked(confirmed, ls, hasToast, t) ==
  [storage |-> LoggedOut, atEvent |-> LoggedOut, ev |-> <<[name |-> "authChanged"]>>,
   toast |-> IF hasToast THEN "Berhasil logout" ELSE t, redirects |-> 1]

\* _handleLogout() that dispatches authChanged before it clears the keys.
_handleLogoutEventFirst(confirmed, ls, hasToast, t) ==
  IF ~confirmed
  THEN [storage |-> ls, atEvent |-> ls, ev |-> NoEvents, toast |-> t, redirects |-> 0]
  ELSE [storage |-> LoggedOut, atEvent |-> ls, ev |-> <<[name |-> "authChanged"]>>,
        toast |-> IF hasToast THEN "Berhasil logout" ELSE t, redirects |-> 1]

\* _handleLogout(), for the user's answer to confirm(), local storage, whether
\* window.showToast exists and the toast shown last: the storage it leaves, the
\* storage at the time authChanged is dispatched, the events dispatched, the
\* toast shown last (the check mark of the message is left out) and the
\* number of redirect timers started.
_handleLogout(confirmed, ls, hasToast, t) ==
  IF ~confirmed
  THEN [storage |-> ls, atEvent |-> ls, ev |-> NoEvents, toast |-> t, redirects |-> 0]
  ELSE LET cleared == [ls EXCEPT !.token = Null, !.user = Null, !.userId = Null,
                                 !.name = Null]
       IN  [storage |-> cleared, atEvent |-> cleared,
            ev |-> <<[name |-> "authChanged"]>>,
            toast |-> IF hasToast THEN "Berhasil logout" ELSE t, redirects |-> 1]

\* A click on #logoutBtn, inside or outside .nav-menu: _handleLogout(), with the
\* user's answer to confirm(); the navbar's authChanged listener runs when the
\* event is dispatched; the click then reaches the document.
Logout(confirmed, target) ==
  /\ navReady
  /\ target \in {"menu", "outside"}
  /\ redirectTimers < MaxTimers
  /\ LET o == _handleLogout(confirmed, localStorage, showToast, toast)
     IN  /\ localStorage' = o.storage
         /\ IF o.ev # NoEvents
            THEN _updateAuthState(o.atEvent)
            ELSE UNCHANGED <<authDisplay, guestDisplay>>
         /\ toast' = o.toast
         /\ redirectTimers' = redirectTimers + o.redirects
         /\ trace' = Step(IF confirmed THEN "logout" ELSE "logoutDeclined", "", 1, o.ev)
  /\ SetMenu(OutsideClick(Menu, target))
  /\ UNCHANGED <<navReady, hash, activeLinks, ariaCurrent, closeTimers, scrollVars,
                 _story, attrs, dom, listeners, detailCount, renders, helper, store,
                 favCalls, shareCalls, canShare, intent, lastToggle, showToast,
                 assigned, loginVars, head, footer>>

\* The deferred redirect of a logout: the hash becomes '#/masuk', and the
\* hashchange listener runs if that changed it.
RedirectTimerFires ==
  /\ redirectTimers > 0
  /\ redirectTimers' = redirectTimers - 1
  /\ hash' = Masuk
  /\ IF hash # Masuk
     THEN _updateActiveLink(Masuk) /\ SetMenu(_closeMenu(Menu))
     ELSE UNCHANGED <<activeLinks, ariaCurrent, menuVars>>
  /\ trace' = Step("redirect", "", 0, NoEvents)
  /\ UNCHANGED <<navReady, localStorage, authDisplay, guestDisplay, closeTimers,
                 scrollVars, cardVars, loginVars, head, footer>>

---------------------------------------------------------------------------
(* Navbar: scroll effect *)

MaxFrames == 2      \* animation-frame callbacks pending at once

\* this.scrollThreshold
scrollThreshold == 50

\* Scroll offsets of the window, in px: around the noise (5), the shadow (50)
\* and the hiding (100) thresholds.
Offsets == {0, 3, 8, 60, 98, 103, 110, 200}

\* A scroll listener without the ticking flag.
RequestsFrameAlways(isTicking) == TRUE

\* The scroll listener of _setupScrollEffect() requests a frame iff no
\* requested callback is still to run.
RequestsFrame(isTicking) == ~isTicking

\* _handleScroll() without the noise threshold on the scroll delta.
_handleScrollEveryDelta(header, y, last, scrolled, hidden) ==
  IF ~header
  THEN [scrolled |-> scrolled, hidden |-> hidden, last |-> last]
  ELSE [scrolled |-> y > 50, hidden |-> (y > last /\ y > 100), last |-> y]

\* _handleScroll(): the header classes and this.lastScrollTop it leaves, for
\* the offset read and the state before; header says whether the page has an
\* .app-header (without one the method returns at once).
_handleScroll(header, y, last, scrolled, hidden) ==
  IF ~header
  THEN [scrolled |-> scrolled, hidden |-> hidden, last |-> last]
  ELSE [scrolled |-> y > scrollThreshold,
        hidden   |-> IF Abs(y - last) > 5 THEN (y > last /\ y > 100) ELSE hidden,
        last     |-> y]

\* The window scrolls to offset y and the scroll listener runs.
Scroll(y) ==
  /\ navReady
  /\ y # scrollTop
  /\ rafPending < MaxFrames
  /\ scrollTop' = y
  /\ IF RequestsFrame(ticking)
     THEN /\ rafPending' = rafPending + 1
          /\ ticking' = TRUE
          /\ trace' = Step("scroll", "requested", 1, NoEvents)
     ELSE /\ trace' = Step("scroll", "skipped", 1, NoEvents)
          /\ UNCHANGED <<rafPending, ticking>>
  /\ UNCHANGED <<navReady, menuVars, localStorage, authDisplay, guestDisplay, hash,
                 activeLinks, ariaCurrent, closeTimers, redirectTimers,
                 lastScrollTop, headerScrolled, headerHidden,
                 cardVars, loginVars, head, footer>>

\* An animation frame: every requested callback runs _handleScroll() and
\* clears the flag.  All of them read the same offset; header is the outcome
\* of document.querySelector('.app-header') at that moment.
AnimationFrame(header) ==
  /\ rafPending > 0
  /\ LET h == _handleScroll(header, scrollTop, lastScrollTop, headerScrolled,
                            headerHidden)
     IN  /\ headerScrolled' = h.scrolled
         /\ headerHidden' = h.hidden
         /\ lastScrollTop' = h.last
  /\ rafPending' = 0
  /\ ticking' = FALSE
  /\ trace' = Step("frame", IF header THEN "header" ELSE "noHeader", rafPending,
                   NoEvents)
  /\ UNCHANGED <<navReady, menuVars, localStorage, authDisplay, guestDisplay, hash,
                 activeLinks, ariaCurrent, closeTimers, redirectTimers, scrollTop,
                 cardVars, loginVars, head, footer>>

---------------------------------------------------------------------------
(* LoginView and RegisterView *)

MaxAlerts == 3      \* alert elements created in one run

Address == S(<<"a", "@", "b">>)

Secret == S(<<"p", "w">>)

\* What the user may have typed into #name, #email and #password.
Names == {Empty, S(<<" ", "A", "n", "n", " ">>)}

Emails == {Empty, Address, S(<<" ", "a", "@", "b">>)}

Passwords == {Empty, Secret}

Views == {"login", "register"}

\* String.prototype.trim, for the space character.
RECURSIVE TrimStart(_)
TrimStart(s) == IF s # <<>> /\ s[1] = " " THEN TrimStart(Tail(s)) ELSE s

RECURSIVE TrimEnd(_)
TrimEnd(s) ==
  IF s # <<>> /\ s[Len(s)] = " " THEN TrimEnd(SubSeq(s, 1, Len(s) - 1)) ELSE s

\* The values read without .trim().
NoTrim(v) == v

Trim(v) == S(TrimEnd(TrimStart(v.s)))

\* The ids of the <style> nodes the components add to the document head.
StyleIds == {"darkNavyFooter", "navbarScrollStyles", "story-card-styles",
             "appleAuthStyles", "registerStyles"}

NoStyles == [id \in StyleIds |-> 0]

\* The style appended without the test for an existing node.
AddStyleUnguarded(h, id) == [h EXCEPT ![id] = @ + 1]

\* if (document.getElementById(id)) return; ... document.head.appendChild(style)
AddStyle(h, id) == IF h[id] > 0 THEN h ELSE [h EXCEPT ![id] = @ + 1]

\* setPresenter(presenter)
SetPresenter ==
  /\ ~presenter
  /\ presenter' = TRUE
  /\ trace' = Step("setPresenter", "", 0, NoEvents)
  /\ UNCHANGED <<rendered, email, password, submitCount, btnLoading, linkTimers,
                 linkListeners, alerts, alertTimers, nextAlert, view, nameField, schedVars, cardVars, navVars, head, footer>>

MaxNodes == 2       \* <style> nodes of one id counted

\* The form render() writes is a new element: it has no listener.
RenderedForm == 0

\* _initListeners(): the form found is replaced by a clone, which has none of
\* its listeners, and one submit listener is added to the clone.  The number
\* of submit listeners on the form of the document afterwards.
_initListeners(onForm) == 1

\* render(): the container's markup is replaced (empty fields, an empty alert
\* container, a fresh button and link), then _initListeners() clones the form,
\* adds one submit listener to the clone and defers the link binding.
RenderView ==
  /\ linkTimers < MaxTimers
  /\ rendered' = TRUE
  /\ nameField' = Empty
  /\ email' = Empty
  /\ password' = Empty
  /\ btnLoading' = FALSE
  /\ alerts' = <<>>
  /\ submitCount' = _initListeners(RenderedForm)
  /\ linkListeners' = 0
  /\ linkTimers' = linkTimers + 1
  /\ trace' = Step("render", "", 0, NoEvents)
  /\ UNCHANGED <<presenter, alertTimers, nextAlert, view, schedVars, cardVars, navVars>>

\* LoginView.render(): the styles are added unless a node of their id exists.
LoginRender ==
  /\ view = "login"
  /\ head["appleAuthStyles"] < MaxNodes
  /\ RenderView
  /\ head' = AddStyle(head, "appleAuthStyles")
  /\ UNCHANGED footer

\* RegisterView.render(), with _injectStyles().
RegisterRender ==
  /\ view = "register"
  /\ head["registerStyles"] < MaxNodes
  /\ RenderView
  /\ head' = AddStyle(head, "registerStyles")
  /\ UNCHANGED footer

\* The deferred link binding: one more click listener on the register link.
LinkTimerFires ==
  /\ linkTimers > 0
  /\ linkTimers' = linkTimers - 1
  /\ linkListeners' = IF rendered /\ (view = "login" \/ presenter)
                      THEN linkListeners + 1 ELSE linkListeners
  /\ trace' = Step("linkTimer", "", 0, NoEvents)
  /\ UNCHANGED <<presenter, rendered, email, password, submitCount, btnLoading,
                 alerts, alertTimers, nextAlert, view, nameField, schedVars, cardVars, navVars, head, footer>>

\* A click on the link below the form (register link of LoginView, login link
\* of RegisterView): each click listener on it runs, and calls the presenter
\* if the view has one.
AuthLinkClick ==
  /\ rendered
  /\ LET calls == IF presenter THEN linkListeners ELSE 0
         method == IF view = "login" THEN "navigateToRegister" ELSE "navigateToLogin"
     IN  trace' = Step("linkClick", view, linkListeners,
                       [i \in 1..calls |-> [name |-> method]])
  /\ UNCHANGED <<cardVars, navVars, loginVars, head, footer>>

\* The user edits the fields.
Type(n, e, p) ==
  /\ rendered
  /\ view = "login" => n = Empty
  /\ <<n, e, p>> # <<nameField, email, password>>
  /\ nameField' = n
  /\ email' = e
  /\ password' = p
  /\ trace' = Step("type", "", 0, NoEvents)
  /\ UNCHANGED <<presenter, rendered, submitCount, btnLoading, linkTimers,
                 linkListeners, alerts, alertTimers, nextAlert, view, schedVars,
                 cardVars, navVars, head, footer>>

\* showAlert that appends the new alert without removing the one shown.
AlertShownKeepsOld(cls, message) ==
  IF ~rendered THEN <<alerts, alertTimers, nextAlert>>
  ELSE <<Append(alerts, [id |-> nextAlert, cls |-> cls, message |-> message,
                         faded |-> FALSE]),
         alertTimers \cup {[id |-> nextAlert, stage |-> "fade"]},
         nextAlert + 1>>

\* showAlert(message) / the alert part of showSuccess(message): the first
\* .alert of the document is removed, a new one is appended and its fade-out
\* timer is started.  The state after the call, as <<alerts, timers, next>>.
AlertShown(cls, message) ==
  IF ~rendered THEN <<alerts, alertTimers, nextAlert>>
  ELSE <<Append(IF alerts = <<>> THEN alerts ELSE Tail(alerts),
                [id |-> nextAlert, cls |-> cls, message |-> message, faded |-> FALSE]),
         alertTimers \cup {[id |-> nextAlert, stage |-> "fade"]},
         nextAlert + 1>>

SetAlerts(a) ==
  /\ alerts' = a[1]
  /\ alertTimers' = a[2]
  /\ nextAlert' = a[3]

\* The call one submit listener makes on the presenter: LoginView passes the
\* values of #email and #password, RegisterView the trimmed values of #name,
\* #email and #password.
PresenterCall ==
  IF view = "login"
  THEN [name |-> "onLoginSubmit", email |-> email, password |-> password]
  ELSE [name |-> "onRegisterSubmit", userName |-> Trim(nameField), email |-> Trim(email),
        password |-> Trim(password)]

\* The submit listeners of _initListeners(), each run once: with a presenter
\* the values go to it; without one LoginView shows an alert and RegisterView
\* does nothing.
SubmitHandled ==
  IF presenter
  THEN /\ trace' = Step("submit", view, submitCount,
                        [i \in 1..submitCount |-> PresenterCall])
       /\ UNCHANGED <<alerts, alertTimers, nextAlert>>
  ELSE /\ trace' = Step("submit", view, submitCount, NoEvents)
       /\ IF view = "login" /\ submitCount > 0
          THEN SetAlerts(AlertShown("alert alert-danger", "Terjadi kesalahan sistem"))
          ELSE UNCHANGED <<alerts, alertTimers, nextAlert>>

\* A submit event on the form of the document.
Submit ==
  /\ rendered
  /\ nextAlert < MaxAlerts
  /\ SubmitHandled
  /\ UNCHANGED <<presenter, rendered, email, password, submitCount, btnLoading,
                 linkTimers, linkListeners, view, nameField, schedVars, cardVars, navVars, head, footer>>

\* validateForm(email, password), as a presenter calls it.
validateForm(e, p) ==
  /\ view = "login"
  /\ nextAlert < MaxAlerts
  /\ IF ~Truthy(e) \/ ~Truthy(p)
     THEN /\ SetAlerts(AlertShown("alert alert-danger",
                                  "Email dan password wajib diisi!"))
          /\ trace' = Step("validateForm", "false", 0, NoEvents)
     ELSE /\ trace' = Step("validateForm", "true", 0, NoEvents)
          /\ UNCHANGED <<alerts, alertTimers, nextAlert>>
  /\ UNCHANGED <<presenter, rendered, email, password, submitCount, btnLoading,
                 linkTimers, linkListeners, view, nameField, schedVars, cardVars, navVars, head, footer>>

\* showLoading(isLoading), as a presenter calls it on a rendered view.
showLoading(isLoading) ==
  /\ rendered
  /\ btnLoading' = isLoading
  /\ trace' = Step("showLoading", "", 0, NoEvents)
  /\ UNCHANGED <<presenter, rendered, email, password, submitCount, linkTimers,
                 linkListeners, alerts, alertTimers, nextAlert, view, nameField, schedVars, cardVars, navVars, head, footer>>

\* showAlert(message), as a presenter calls it on a rendered view.
showAlert ==
  /\ rendered
  /\ nextAlert < MaxAlerts
  /\ SetAlerts(AlertShown("alert alert-danger", "failed"))
  /\ trace' = Step("showAlert", "", 0, NoEvents)
  /\ UNCHANGED <<presenter, rendered, email, password, submitCount, btnLoading,
                 linkTimers, linkListeners, view, nameField, schedVars, cardVars,
                 navVars, head, footer>>

\* showSuccess(message), as a presenter calls it on a rendered view.
showSuccess ==
  /\ rendered
  /\ nextAlert < MaxAlerts
  /\ btnLoading' = FALSE
  /\ SetAlerts(AlertShown("alert alert-success", "ok"))
  /\ trace' = Step("showSuccess", "", 0, NoEvents)
  /\ UNCHANGED <<presenter, rendered, email, password, submitCount, linkTimers,
                 linkListeners, view, nameField, schedVars, cardVars, navVars, head, footer>>

\* A timer of an alert fires: the fade-out sets the opacity and starts the
\* removal timer; the removal takes the element out of the document.
AlertTimerFires(tm) ==
  /\ tm \in alertTimers
  /\ IF tm.stage = "fade"
     THEN /\ alerts' = [i \in 1..Len(alerts) |->
                          IF alerts[i].id = tm.id
                          THEN [alerts[i] EXCEPT !.faded = TRUE] ELSE alerts[i]]
          /\ alertTimers' = (alertTimers \ {tm}) \cup {[id |-> tm.id, stage |-> "remove"]}
     ELSE /\ alerts' = SelectSeq(alerts, LAMBDA a : a.id # tm.id)
          /\ alertTimers' = alertTimers \ {tm}
  /\ trace' = Step("alertTimer", tm.stage, 0, NoEvents)
  /\ UNCHANGED <<presenter, rendered, email, password, submitCount, btnLoading,
                 linkTimers, linkListeners, nextAlert, view, nameField, schedVars, cardVars, navVars, head, footer>>

---------------------------------------------------------------------------
(* LoginView and RegisterView: scheduleNavigation *)

MaxScheduled == 2   \* calls of scheduleNavigation in one run

MaxClock == 3       \* the page is observed for this many units of time

\* The delays a presenter passes, in units of time.
Delays == {1, 2}

\* A setTimeout preceded by a clearTimeout of the timer set before.
SetTimeoutReplacing(timers, tm) == {tm}

\* setTimeout(callback, delay): one more pending timer; nothing is cleared.
SetTimeout(timers, tm) == timers \cup {tm}

\* scheduleNavigation(callback, delay), same in both views.
scheduleNavigation(delay) ==
  /\ nextTimer < MaxScheduled
  /\ clock + delay <= MaxClock
  /\ nextTimer' = nextTimer + 1
  /\ navTimers' = SetTimeout(navTimers, [id |-> nextTimer + 1, due |-> clock + delay])
  /\ trace' = Step("scheduleNavigation", "", 0, NoEvents)
  /\ UNCHANGED <<clock, navRan, view, nameField, presenter, rendered, email, password,
                 submitCount, btnLoading, linkTimers, linkListeners, alerts,
                 alertTimers, nextAlert, cardVars, navVars, head, footer>>

\* Time passes.
Tick ==
  /\ clock < MaxClock
  /\ clock' = clock + 1
  /\ trace' = Step("tick", "", 0, NoEvents)
  /\ UNCHANGED <<navTimers, navRan, nextTimer, view, nameField, presenter, rendered,
                 email, password, submitCount, btnLoading, linkTimers,
                 linkListeners, alerts, alertTimers, nextAlert, cardVars, navVars,
                 head, footer>>

\* A timer of scheduleNavigation is due: its callback runs.
NavTimerFires(tm) ==
  /\ tm \in navTimers
  /\ tm.due <= clock
  /\ navTimers' = navTimers \ {tm}
  /\ navRan' = [navRan EXCEPT ![tm.id] = @ + 1]
  /\ trace' = Step("navigate", "", 1, NoEvents)
  /\ UNCHANGED <<clock, nextTimer, view, nameField, presenter, rendered, email,
                 password, submitCount, btnLoading, linkTimers, linkListeners,
                 alerts, alertTimers, nextAlert, cardVars, navVars, head, footer>>

---------------------------------------------------------------------------
(* Styles added to the document head *)

\* The <footer> of the page before Footer.render() has written into it.
BlankFooter == [kind |-> "blank"]

\* The template literal of Footer.render(): fixed text, with the year of the
\* current time of the page in the copyright line.
FooterTemplate == [kind |-> "footer", year |-> Now.m \div 372]

\* new Footer(): render() returns early when the page has no <footer>,
\* otherwise it replaces the footer's markup and ends with addStyles().
FooterConstruct(hasFooter) ==
  /\ head["darkNavyFooter"] < MaxNodes
  /\ head' = IF hasFooter THEN AddStyle(head, "darkNavyFooter") ELSE head
  /\ footer' = IF hasFooter THEN FooterTemplate ELSE footer
  /\ trace' = Step("newFooter", IF hasFooter THEN "footer" ELSE "noFooter", 0,
                   NoEvents)
  /\ UNCHANGED <<cardVars, navVars, loginVars>>

\* Navbar.addScrollStyles()
addScrollStyles ==
  /\ head["navbarScrollStyles"] < MaxNodes
  /\ head' = AddStyle(head, "navbarScrollStyles")
  /\ trace' = Step("addScrollStyles", "", 0, NoEvents)
  /\ UNCHANGED <<cardVars, navVars, loginVars, footer>>

\* connectedCallback() of a story card: the role is set and _addStyles() runs.
connectedCallback ==
  /\ head["story-card-styles"] < MaxNodes
  /\ head' = AddStyle(head, "story-card-styles")
  /\ trace' = Step("connected", "", 0, NoEvents)
  /\ UNCHANGED <<cardVars, navVars, loginVars, footer>>

---------------------------------------------------------------------------
(* Initial states and specifications *)

\* constructor() of StoryCard, in a page with or without the favorite store.
CardInit ==
  /\ _story = Null
  /\ attrs = {}
  /\ dom = BlankMarkup
  /\ listeners = {}
  /\ detailCount = 0
  /\ renders = <<>>
  /\ helper \in BOOLEAN
  /\ store \in (IF helper THEN {{}, {StoryB.id}} ELSE {{}})
  /\ favCalls = <<>>
  /\ shareCalls = <<>>
  /\ canShare \in BOOLEAN
  /\ intent = [clicks |-> 0, want |-> FALSE, ok |-> TRUE]
  /\ lastToggle = [seen |-> FALSE]
  /\ showToast \in BOOLEAN
  /\ toast = ""
  /\ assigned = Unassigned

\* The navigation as the page's markup has it before any script runs: the
\* menu-closed state.
PageMarkup ==
  [menuActive |-> FALSE, bodyMenuOpen |-> FALSE, bodyOverflow |-> "",
   ariaExpanded |-> "false", icon |-> "fas fa-bars"]

\* constructor() of Navbar while the document is loading: the menu closed as
\* the page's markup has it, any hash, any local storage.
NavInit ==
  /\ navReady = FALSE
  /\ isMenuOpen = FALSE
  /\ menuActive = PageMarkup.menuActive
  /\ bodyMenuOpen = PageMarkup.bodyMenuOpen
  /\ bodyOverflow = PageMarkup.bodyOverflow
  /\ ariaExpanded = PageMarkup.ariaExpanded
  /\ icon = PageMarkup.icon
  /\ localStorage \in Storages
  /\ authDisplay = ""
  /\ guestDisplay = ""
  /\ hash \in Hashes
  /\ activeLinks = {}
  /\ ariaCurrent = {}
  /\ closeTimers = 0
  /\ redirectTimers = 0
  /\ ticking = FALSE
  /\ rafPending = 0
  /\ scrollTop = 0
  /\ lastScrollTop = 0
  /\ headerScrolled = FALSE
  /\ headerHidden = FALSE

\* constructor() of LoginView or of RegisterView.
LoginInit ==
  /\ presenter = FALSE
  /\ rendered = FALSE
  /\ email = Empty
  /\ password = Empty
  /\ submitCount = 0
  /\ btnLoading = FALSE
  /\ linkTimers = 0
  /\ linkListeners = 0
  /\ alerts = <<>>
  /\ alertTimers = {}
  /\ nextAlert = 0
  /\ view \in Views
  /\ nameField = Empty
  /\ clock = 0
  /\ navTimers = {}
  /\ navRan = [i \in 1..MaxScheduled |-> 0]
  /\ nextTimer = 0

\* A component the specification at hand leaves alone.
CardIdle == CardInit /\ ~helper /\ ~canShare /\ ~showToast

NavIdle == NavInit /\ localStorage = LoggedOut /\ hash = NoHash

LoginIdle == LoginInit /\ view = "login"

\* The head once the script of the navbar has run Navbar.addScrollStyles().
NavStyles == AddStyle(NoStyles, "navbarScrollStyles")

InitCard == footer = BlankFooter /\ CardInit /\ canShare /\ ~showToast /\ NavIdle /\ LoginIdle /\ head = NoStyles
            /\ trace = Step("init", "", 0, NoEvents)

NextCard ==
  \/ \E v \in Assignable : SetStory(v)
  \/ \E name \in {"loading", "compact"} : AttributeChanged(name)
  \/ \E i \in 1..MaxPending, lookupFails \in BOOLEAN : RenderResume(i, lookupFails)
  \/ ClickLocation
  \/ ClickFavorite
  \/ ClickShare
  \/ ClickDetail

SpecCard == InitCard /\ [][NextCard]_vars

\* Assignments of any value, attribute changes and the renders they start.
InitAssign == InitCard

NextAssign ==
  \/ \E v \in AnyValue \ {StoryD} : SetStory(v)
  \/ AttributeChanged("compact")
  \/ \E i \in 1..MaxPending, lookupFails \in BOOLEAN : RenderResume(i, lookupFails)

SpecAssign == InitAssign /\ [][NextAssign]_vars

\* A card that is rendered, clicked and removed from the document.
InitLifecycle == InitCard

NextLifecycle ==
  \/ \E v \in {StoryA, StoryB} : SetStory(v)
  \/ \E i \in 1..MaxPending, lookupFails \in BOOLEAN : RenderResume(i, lookupFails)
  \/ disconnectedCallback
  \/ ClickLocation
  \/ ClickFavorite
  \/ ClickShare
  \/ ClickDetail

SpecLifecycle == InitLifecycle /\ [][NextLifecycle]_vars

\* The render() of each component, called again and again: of a card of either
\* story, of the view, of the footer.
InitRender ==
  /\ CardInit /\ canShare /\ ~showToast
  /\ LoginInit
  /\ NavIdle
  /\ head = NoStyles
  /\ footer = BlankFooter
  /\ trace = Step("init", "", 0, NoEvents)

NextRender ==
  \/ \E v \in {StoryA, StoryB} : SetStory(v)
  \/ Render
  \/ \E i \in 1..MaxPending, lookupFails \in BOOLEAN : RenderResume(i, lookupFails)
  \/ LoginRender
  \/ RegisterRender
  \/ \E e \in {Address}, p \in {Secret} : Type(Empty, e, p)
  \/ showSuccess
  \/ \E hasFooter \in BOOLEAN : FooterConstruct(hasFooter)

SpecRender == InitRender /\ [][NextRender]_vars

\* A card whose page calls the share handler, with or without the Web Share
\* API and window.showToast.
InitShare ==
  /\ CardInit /\ ~helper
  /\ NavIdle /\ LoginIdle
  /\ head = NoStyles
  /\ footer = BlankFooter
  /\ trace = Step("init", "", 0, NoEvents)

NextShare ==
  \/ \E v \in {StoryB, StoryC} : SetStory(v)
  \/ \E i \in 1..MaxPending : RenderResume(i, FALSE)
  \/ InvokeShare
  \/ \E i \in 1..MaxShareCalls, outcome \in ShareOutcomes : ShareSettle(i, outcome)

SpecShare == InitShare /\ [][NextShare]_vars

\* One story, with a page that calls the favorite handler.
InitFav == footer = BlankFooter /\ CardInit /\ helper /\ canShare /\ NavIdle /\ LoginIdle /\ head = NoStyles
           /\ trace = Step("init", "", 0, NoEvents)

NextFav ==
  \/ SetStory(StoryB)
  \/ \E i \in 1..MaxPending, lookupFails \in BOOLEAN : RenderResume(i, lookupFails)
  \/ InvokeFavorite
  \/ \E i \in 1..MaxFavCalls, resolved \in BOOLEAN : FavoriteSettle(i, resolved)

SpecFav == InitFav /\ [][NextFav]_vars

\* The favorite handler in a page with or without window.indexedDBHelper.
InitToggle ==
  /\ CardInit /\ canShare
  /\ NavIdle /\ LoginIdle
  /\ head = NoStyles
  /\ footer = BlankFooter
  /\ trace = Step("init", "", 0, NoEvents)

NextToggle == NextFav

SpecToggle == InitToggle /\ [][NextToggle]_vars

InitNav == footer = BlankFooter /\ NavInit /\ CardInit /\ ~helper /\ ~canShare /\ LoginIdle
           /\ head = NavStyles
           /\ trace = Step("init", "", 0, NoEvents)

NextNav ==
  \/ NavSetup
  \/ ToggleClick
  \/ \E target \in {"menu", "outside"} : DocumentClick(target)
  \/ \E narrow \in BOOLEAN : LinkClick(narrow)
  \/ CloseTimerFires
  \/ \E key \in Keys : KeyDown(key)
  \/ \E h \in Hashes : HashChange(h)
  \/ \E ls \in Storages : StorageWrite(ls)
  \/ AuthChanged
  \/ \E confirmed \in BOOLEAN, target \in {"menu", "outside"} : Logout(confirmed, target)
  \/ RedirectTimerFires

SpecNav == InitNav /\ [][NextNav]_vars

InitLogin == footer = BlankFooter /\ LoginInit /\ CardIdle /\ NavIdle /\ head = NoStyles
             /\ trace = Step("init", "", 0, NoEvents)

NextLogin ==
  \/ SetPresenter
  \/ LoginRender
  \/ RegisterRender
  \/ LinkTimerFires
  \/ \E n \in Names, e \in Emails, p \in Passwords : Type(n, e, p)
  \/ Submit
  \/ \E e \in Emails, p \in Passwords : validateForm(e, p)
  \/ \E isLoading \in BOOLEAN : showLoading(isLoading)
  \/ showSuccess
  \/ \E tm \in alertTimers : AlertTimerFires(tm)

SpecLogin == InitLogin /\ [][NextLogin]_vars

\* The link below the form: renders, the deferred binding, clicks.
InitLink == InitLogin

NextLink ==
  \/ SetPresenter
  \/ LoginRender
  \/ RegisterRender
  \/ LinkTimerFires
  \/ \E e \in Emails, p \in Passwords : Type(Empty, e, p)
  \/ AuthLinkClick

SpecLink == InitLink /\ [][NextLink]_vars

\* Logging out: the deferred redirect runs while the page stays open.
InitLogout == InitNav

NextLogout ==
  \/ NavSetup
  \/ \E h \in {Root, Masuk} : HashChange(h)
  \/ \E ls \in Storages : StorageWrite(ls)
  \/ AuthChanged
  \/ \E confirmed \in BOOLEAN, target \in {"menu", "outside"} : Logout(confirmed, target)
  \/ RedirectTimerFires

SpecLogout == InitLogout /\ [][NextLogout]_vars /\ WF_vars(RedirectTimerFires)

\* Alerts of a view: calls of showAlert and showSuccess and the timers of the
\* alerts, which run while the page stays open.
InitAlerts == InitLogin

NextAlerts ==
  \/ LoginRender
  \/ RegisterRender
  \/ LinkTimerFires
  \/ showAlert
  \/ showSuccess
  \/ \E tm \in alertTimers : AlertTimerFires(tm)

SpecAlerts ==
  /\ InitAlerts
  /\ [][NextAlerts]_vars
  /\ WF_vars(\E tm \in alertTimers : AlertTimerFires(tm))

\* The navbar's scroll effect.
InitScroll == InitNav /\ localStorage = LoggedOut /\ hash = NoHash

NextScroll ==
  \/ NavSetup
  \/ \E y \in Offsets : Scroll(y)
  \/ \E header \in BOOLEAN : AnimationFrame(header)

SpecScroll == InitScroll /\ [][NextScroll]_vars

\* The deferred navigation of the two views.  Time passes and a due timer
\* fires: the page stays open.
InitSchedule == InitLogin

NextSchedule ==
  \/ \E delay \in Delays : scheduleNavigation(delay)
  \/ Tick
  \/ \E tm \in navTimers : NavTimerFires(tm)

SpecSchedule ==
  /\ InitSchedule
  /\ [][NextSchedule]_vars
  /\ WF_vars(Tick)
  /\ WF_vars(\E tm \in navTimers : NavTimerFires(tm))

\* Constructions and renders of the components, in any order.
InitStyles == InitLogin

NextStyles ==
  \/ \E hasFooter \in BOOLEAN : FooterConstruct(hasFooter)
  \/ addScrollStyles
  \/ connectedCallback
  \/ LoginRender
  \/ RegisterRender
  \/ LinkTimerFires

SpecStyles == InitStyles /\ [][NextStyles]_vars

Init == InitCard

Next == NextCard

Spec == SpecCard

---------------------------------------------------------------------------
(* Claims *)

ExampleStory == _validateStoryData(StoryA)

\* C1: assigning a story whose createdAt is not a valid date never makes
\* render() fail; for the example story the card shows the name escaped to
\* literal text, the date "Invalid Date" and the location button with
\* lat=12.3, lon=45.6.
C1_InvalidDateRenders ==
  /\ trace.op # "renderRejected"
  /\ (_story = ExampleStory /\ renders = <<>>) =>
       /\ dom.kind = "card"
       /\ dom.title = S(<<"&lt;", "script", "&gt;">>)
       /\ dom.dateTitle = S(<<"Invalid Date">>)
       /\ "btn-location" \in dom.elems
       /\ dom.dataLat = S(<<"1", "2", ".", "3">>)
       /\ dom.dataLon = S(<<"4", "5", ".", "6">>)

\* C2: when the submit handler runs with an empty email or an empty password,
\* the presenter is not invoked and the missing field is shown as an alert.
C2_EmptyFieldNotSubmitted ==
  (view = "login" /\ trace.op = "submit" /\ (email = Empty \/ password = Empty)) =>
     /\ trace.ev = NoEvents
     /\ \E i \in 1..Len(alerts) :
          alerts[i].message = "Email dan password wajib diisi!"

\* C3: every button render() writes has its handler attached by
\* _attachEventListeners(), so a click on it runs the handler.
C3_EveryButtonBound ==
  /\ dom.kind = "card" =>
       \A b \in dom.elems \cap Buttons :
         IF b = "btn-view-detail" THEN detailCount >= 1
         ELSE Attached(b, HandlerOf(b))
  /\ trace.op = "click" => trace.ran >= 1

\* C4: after any sequence of assignments and attribute changes, one click on a
\* button of the card shown runs that button's handler exactly once and
\* dispatches at most one event.
C4_ClickRunsHandlerOnce ==
  trace.op = "click" => (trace.ran = 1 /\ Len(trace.ev) <= 1)

\* The half of C4 that concerns duplicate bindings: no click runs a handler
\* twice or dispatches two events.
NoDuplicateBinding ==
  trace.op = "click" => (trace.ran <= 1 /\ Len(trace.ev) <= 1)

\* C5: for every story without a valid pair of coordinates the card shows the
\* "no location" footer and neither the location button nor the badge.
C5_NoLocationVariant ==
  (_story # Null /\ renders = <<>> /\ ~hasLocation(_story)) =>
     /\ dom.kind = "card"
     /\ "no-location" \in dom.elems
     /\ "btn-location" \notin dom.elems
     /\ "location-badge" \notin dom.elems

\* C6: for every story with both coordinates numeric, a click on the location
\* button dispatches one story-location-click whose detail is the stored story,
\* with exactly the story's two numbers as lat and lon.
C6_LocationEventCarriesCoordinates ==
  (/\ trace.op = "click" /\ trace.target = "btn-location"
   /\ renders = <<>> /\ hasLocation(_story)) =>
     /\ Len(trace.ev) = 1
     /\ trace.ev[1].name = "story-location-click"
     /\ trace.ev[1].detail = _story

\* C7: after two favorite handler calls, the second made before the store call
\* of the first completed, and both store calls resolved, the store, the
\* button's active class and the last story-favorite-toggle event agree with
\* the user's last intent (the second click undoes the first).
C7_LastIntentWins ==
  (favCalls = <<>> /\ intent.clicks = 2 /\ intent.ok /\ dom.kind = "card") =>
     /\ (_story.id \in store) = intent.want
     /\ dom.favActive = intent.want
     /\ lastToggle.seen /\ lastToggle.isFavorited = intent.want

\* C8: once _updateActiveLink has run for the current hash: on '#/' or an empty
\* hash exactly the '#/' link is active; on '#/about' the '#/about' link is
\* active and the '#/' link is not; aria-current="page" is on exactly the
\* active links.
C8_ActiveLink ==
  navReady =>
     /\ (hash \in {Root, NoHash} => activeLinks = {Root})
     /\ (hash = About => (About \in activeLinks /\ Root \notin activeLinks))
     /\ ariaCurrent = activeLinks

C8_Witness ==
  navReady /\ hash = About /\ activeLinks = {About} /\ trace.op = "hashchange"

MenuClosed ==
  ~isMenuOpen /\ bodyOverflow = "" /\ icon = "fas fa-bars"

ForceCloseStep ==
  \/ trace.op = "click" /\ trace.target = "outside"
  \/ trace.op = "hashchange"
  \/ trace.op = "keydown" /\ trace.target = "Escape"

TokenPresent == localStorage.token # Null /\ localStorage.token # S(<<>>)

\* C10: at startup and after every authChanged event is handled, the auth-only
\* items are displayed iff local storage holds a token that is neither null nor
\* empty, the guest-only items iff it does not; once set up the two groups are
\* never both shown or both hidden.
C10_AuthVisibility ==
  /\ trace.op \in {"setup", "authChanged", "logout"} =>
       /\ (authDisplay = "") <=> TokenPresent
       /\ (guestDisplay = "") <=> ~TokenPresent
  /\ navReady => (authDisplay = "") # (guestDisplay = "")
  /\ navReady => {authDisplay, guestDisplay} = {"", "none"}

C10_Witness ==
  /\ trace.op = "authChanged"
  /\ localStorage = Stored(Empty)
  /\ authDisplay = "none" /\ guestDisplay = ""


\* A step in which a favorite handler call ends on a rejected store call.
StoreCallRejected ==
  /\ Len(favCalls') < Len(favCalls)
  /\ trace'.op # "favoriteDone"

\* C11: when the store call of the favorite handler rejects, the handler
\* completes without throwing, the button (class and labels), the store and
\* the last toggle event stay as they were, no event is dispatched, no new
\* store call is started, and window.showToast is called only if it exists.
C11_RejectedStoreCall ==
  [][StoreCallRejected =>
       /\ trace'.op = "favoriteFailed"
       /\ dom' = dom
       /\ store' = store
       /\ trace'.ev = NoEvents
       /\ lastToggle' = lastToggle
       /\ Len(favCalls') = Len(favCalls) - 1
       /\ toast' = IF showToast THEN "Gagal mengubah favorit" ELSE toast]_vars

C11_Witness ==
  /\ trace.op = "favoriteFailed"
  /\ ~showToast
  /\ dom.kind = "card"


\* The alert element the last step created is in the document.
AlertJustShown ==
  \E i \in 1..Len(alerts) : alerts[i].id = nextAlert - 1 /\ ~alerts[i].faded

\* C12: in both views, a submit while no presenter is set does not throw and
\* shows the user an alert of its own.
C12_MissingPresenterAlert ==
  (trace.op = "submit" /\ ~presenter) =>
     /\ trace.ev = NoEvents
     /\ AlertJustShown

\* r is string v without its leading and trailing spaces.
IsTrimmed(r, v) ==
  /\ r.t = "str"
  /\ \E a, b \in 0..Len(v.s) :
        /\ a + b <= Len(v.s)
        /\ \A i \in 1..a : v.s[i] = " "
        /\ \A i \in (Len(v.s) - b + 1)..Len(v.s) : v.s[i] = " "
        /\ r.s = SubSeq(v.s, a + 1, Len(v.s) - b)
  /\ r.s # <<>> => (r.s[1] # " " /\ r.s[Len(r.s)] # " ")

\* C13: each submit event invokes the presenter exactly once, LoginView with
\* the current values of the fields and RegisterView with their trimmed
\* values, however many times render() ran before.
C13_SubmitInvokesOnce ==
  (trace.op = "submit" /\ presenter) =>
     /\ trace.ran = 1
     /\ Len(trace.ev) = 1
     /\ view = "login" =>
          trace.ev[1] = [name |-> "onLoginSubmit", email |-> email,
                         password |-> password]
     /\ view = "register" =>
          /\ trace.ev[1].name = "onRegisterSubmit"
          /\ IsTrimmed(trace.ev[1].userName, nameField)
          /\ IsTrimmed(trace.ev[1].email, email)
          /\ IsTrimmed(trace.ev[1].password, password)

C13_Witness ==
  /\ trace.op = "submit"
  /\ presenter
  /\ view = "register"
  /\ linkTimers = 2
  /\ nameField # Empty /\ nameField.s[1] = " "
  /\ email # Empty /\ email.s[1] = " "

\* C14: after any sequence of constructions and renders the head holds at most
\* one style node of each style id.
C14_OneStylePerId == \A id \in StyleIds : head[id] <= 1

C14_Witness ==
  /\ trace.op = "render"
  /\ linkTimers = 2
  /\ head["appleAuthStyles"] + head["registerStyles"] = 1
  /\ head["darkNavyFooter"] = 1
  /\ head["story-card-styles"] = 1
  /\ head["navbarScrollStyles"] = 1

\* C15: every callback given to scheduleNavigation runs at most once and
\* eventually does run; its timer leaves the pending set only by firing, not
\* before its delay has passed, so a second call neither cancels nor replaces
\* the first and nothing else cancels one.
C15_IndependentCallbacks ==
  /\ [](\A i \in 1..MaxScheduled : navRan[i] <= 1)
  /\ [][\A tm \in navTimers :
          tm \notin navTimers' =>
            /\ tm.due <= clock
            /\ navRan' = [navRan EXCEPT ![tm.id] = @ + 1]
            /\ navTimers' = navTimers \ {tm}]_vars
  /\ \A i \in 1..MaxScheduled : (nextTimer >= i) ~> (navRan[i] = 1)

C15_Witness ==
  /\ trace.op = "scheduleNavigation"
  /\ Cardinality(navTimers) = 2
  /\ \A i \in 1..MaxScheduled : navRan[i] = 0


\* C16: the navbar has at most one animation-frame callback pending, and a
\* frame runs _handleScroll at most once; a scroll event while a callback is
\* pending requests nothing, and a scroll event with none pending requests one.
C16_OneFramePerScrollBurst ==
  /\ [](/\ rafPending <= 1
        /\ ticking <=> (rafPending = 1)
        /\ trace.op = "frame" => trace.ran <= 1)
  /\ [][trace'.op = "scroll" =>
          /\ rafPending = 1 => (rafPending' = 1 /\ trace'.target = "skipped")
          /\ rafPending = 0 => (rafPending' = 1 /\ trace'.target = "requested")]_vars

C16_Witness ==
  /\ trace.op = "scroll"
  /\ trace.target = "skipped"
  /\ rafPending = 1
  /\ lastScrollTop # 0

StoryFields ==
  {"id", "name", "photoUrl", "description", "createdAt", "lat", "lon", "author"}

\* The stored record st is built from the assigned value v alone, with the
\* defaults where v has no value.
StoredFrom(st, v) ==
  /\ DOMAIN st = StoryFields
  /\ st.id # Undefined /\ st.id # Null /\ Truthy(st.id)
  /\ Truthy(Prop(v, "id")) => st.id = v.id
  /\ \A c \in {"lat", "lon"} : st[c] = Null \/ st[c].t = "num"
  /\ st.author = IF Truthy(Prop(v, "author")) THEN v.author ELSE S(<<"Anonymous">>)
  /\ st.photoUrl = IF Truthy(Prop(v, "photoUrl")) THEN v.photoUrl
                   ELSE _getPlaceholderImage
  /\ Truthy(Prop(v, "createdAt")) => st.createdAt = v.createdAt
  /\ ~Truthy(Prop(v, "name")) => st.name = S(<<"Untitled Story">>)
  /\ ~Truthy(Prop(v, "description")) => st.description = S(<<"No description">>)

\* C17: assigning a falsy value leaves the stored story and the markup as
\* they were and starts no render; assigning any other value stores a record
\* built from that value alone (lat and lon a number or null, id present,
\* author defaulting to "Anonymous") and starts exactly one render of it.
C17_StoryAssignment ==
  [][/\ trace'.op = "setStoryInvalid" =>
          /\ IsFalsy(assigned')
          /\ _story' = _story /\ dom' = dom /\ renders' = renders
     /\ trace'.op = "setStory" =>
          /\ ~IsFalsy(assigned')
          /\ StoredFrom(_story', assigned')
          /\ Len(renders') = Len(renders) + 1
          /\ SubSeq(renders', 1, Len(renders)) = renders
          /\ renders'[Len(renders')].s = _story']_vars

C17_Witness ==
  /\ trace.op = "setStory"
  /\ assigned = StoryC
  /\ Len(renders) = 2
  /\ renders[1].s.id = StoryB.id
  /\ _story.lat = Null /\ _story.lon = Num(7, 0)

\* C18 as stated: while the lookup of a render is pending the card already
\* shows that story's markup, and the settling of the lookup writes nothing.
C18_RendersBeforeLookup ==
  /\ [](\A i \in 1..Len(renders) :
          dom.kind = "card" /\ dom.storyId = renders[i].s.id)
  /\ [][Len(renders') < Len(renders) => dom' = dom]_vars

\* C18, amended: starting a render writes nothing, so while its lookup is
\* pending the card keeps the markup it had; when the lookup settles the
\* markup is written once, with the favorite state the lookup returned (not
\* favorited when it failed or there is no helper), unless the render is
\* rejected for its date.
C18_RendersAfterLookup ==
  /\ [][(trace'.op \in {"setStory", "attributeChanged"} /\ _story' # Null) =>
          (dom' = dom /\ Len(renders') = Len(renders) + 1)]_vars
  /\ [][Len(renders') < Len(renders) =>
          \/ /\ trace'.op = "rendered"
             /\ dom'.kind = "card"
             /\ dom'.favActive = (/\ helper
                                  /\ trace'.target = "lookupResolved"
                                  /\ dom'.storyId \in store)
          \/ /\ trace'.op = "renderRejected"
             /\ dom' = dom]_vars

C18_Witness ==
  /\ trace.op = "rendered"
  /\ trace.target = "lookupResolved"
  /\ dom.favActive

\* C19: in every navbar state the five menu indicators agree with
\* isMenuOpen, and _closeMenu on a closed menu changes nothing.
C19_IndicatorsAgree ==
  /\ menuActive = isMenuOpen
  /\ bodyMenuOpen = isMenuOpen
  /\ (bodyOverflow = "hidden") = isMenuOpen
  /\ (ariaExpanded = "true") = isMenuOpen
  /\ (icon = "fas fa-times") = isMenuOpen
  /\ ~isMenuOpen => _closeMenu(Menu) = Menu

C19_Witness ==
  /\ isMenuOpen
  /\ trace.op = "click" /\ trace.target = "toggle"
  /\ icon = "fas fa-times"
  /\ closeTimers > 0

\* C20: once the navbar is set up, a link is active iff its href equals the
\* current hash (an empty hash counting as '#/') or is a prefix of it other
\* than '#/'; so '#/' is active on the bare root only, and '#/about' is active
\* on the sibling route '#/aboutx' too.
C20_ActiveRule ==
  navReady =>
    LET cur == IF hash = <<>> THEN <<"#", "/">> ELSE hash
    IN  /\ activeLinks =
             {href \in NavLinks :
                href = cur \/ (href # <<"#", "/">> /\ StartsWith(cur, href))}
        /\ ariaCurrent = activeLinks
        /\ (Root \in activeLinks) <=> (cur = Root)
        /\ cur = AboutSibling => About \in activeLinks

C20_Witness ==
  /\ navReady
  /\ trace.op = "hashchange"
  /\ hash = AboutSibling
  /\ activeLinks = {About}

\* C21: a frame in which _handleScroll finds the header, with the offset s
\* read and the previous offset p, leaves 'scrolled' set iff s > 50; leaves
\* 'nav-hidden' set iff s > p and s > 100 when |s - p| > 5 and as it was
\* otherwise; and stores s in lastScrollTop.
C21_ScrollClasses ==
  [][(trace'.op = "frame" /\ trace'.target = "header") =>
       LET s == scrollTop
           p == lastScrollTop
           d == IF s >= p THEN s - p ELSE p - s
       IN  /\ headerScrolled' <=> s > 50
           /\ d > 5 => (headerHidden' <=> (s > p /\ s > 100))
           /\ d <= 5 => (headerHidden' <=> headerHidden)
           /\ lastScrollTop' = s]_vars

\* The header stays hidden after a scroll up of 5px: from 103 to 98.
C21_Witness ==
  /\ trace.op = "frame"
  /\ trace.target = "header"
  /\ lastScrollTop = 98
  /\ headerHidden
  /\ headerScrolled

\* C22: once disconnectedCallback has run, no listener attached by
\* _attachEventListeners is left on the card's elements (location, image
\* load/error, favorite, share, detail), and a click on one of its buttons
\* dispatches no story-* event.
C22_NoListenerAfterDisconnect ==
  /\ [](trace.op = "disconnected" => (listeners = {} /\ detailCount = 0))
  /\ [][(trace.op = "disconnected" /\ trace'.op = "click") =>
          trace'.ev = NoEvents]_vars

\* C23: render() is idempotent.  A render of a StoryCard that completes with
\* the state as it was when the render was called leaves exactly one card
\* article, that of the story, and leaves the markup as it was when the card
\* already showed that state; render() of a view leaves one empty form and an
\* empty alert container whatever was there; render() of the Footer leaves the
\* footer markup, the same as a render before it left.
C23_RenderIdempotent ==
  [][/\ (/\ trace'.op \in {"rendered", "renderRejected"}
         /\ \A i \in 1..Len(renders) :
              renders[i] = [s |-> _story, compact |-> "compact" \in attrs]) =>
          /\ dom'.kind = "card"
          /\ dom'.storyId = _story.id
          /\ dom'.title = _story.name
          /\ dom'.compact = ("compact" \in attrs)
          /\ (dom.kind = "card" /\ dom.favActive = dom'.favActive
                /\ dom = Template(_story, "compact" \in attrs, dom.favActive)) =>
                dom' = dom
     /\ trace'.op = "render" =>
          /\ rendered'
          /\ alerts' = <<>>
          /\ nameField' = Empty /\ email' = Empty /\ password' = Empty
          /\ ~btnLoading'
     /\ (trace'.op = "newFooter" /\ trace'.target = "footer") =>
          /\ footer'.kind = "footer"
          /\ footer.kind = "footer" => footer' = footer]_vars

\* C24: once every render of a card has completed, the markup shown
\* (data-story-id, title, location button) is that of the story the getter
\* returns, the one assigned last, in whatever order the lookups of
\* overlapping renders resolved.
C24_ShowsLatestStory ==
  (renders = <<>> /\ dom.kind = "card") =>
    /\ dom.storyId = _story.id
    /\ dom.title = _story.name
    /\ ("btn-location" \in dom.elems) <=> hasLocation(_story)

\* C25: after any number of render() calls of a view, also when two of them
\* are made before the deferred link binding of the first has run, one click
\* on the link below the form calls navigateToRegister / navigateToLogin of
\* the presenter at most once.
C25_LinkNavigatesOnce ==
  trace.op = "linkClick" => Len(trace.ev) <= 1

\* C26: when the user declines the confirmation, _handleLogout leaves the keys
\* token, user, userId and name of local storage as they were, dispatches no
\* authChanged, shows no toast and schedules no redirect.
C26_DeclinedLogout ==
  [][trace'.op = "logoutDeclined" =>
       /\ localStorage' = localStorage
       /\ trace'.ev = NoEvents
       /\ toast' = toast
       /\ redirectTimers' = redirectTimers
       /\ authDisplay' = authDisplay /\ guestDisplay' = guestDisplay
       /\ hash' = hash]_vars

C26_Witness ==
  /\ trace.op = "logoutDeclined"
  /\ localStorage = Stored(Token)
  /\ showToast
  /\ toast = ""
  /\ redirectTimers = 0

\* C27: a confirmed logout removes the four keys before authChanged is
\* dispatched, so the navbar's listener shows the guest items and hides the
\* auth items; the hash is not touched by the handler, and the redirect it
\* schedules eventually sets it to '#/masuk'.
C27_ConfirmedLogout ==
  /\ [][trace'.op = "logout" =>
          /\ \A k \in {"token", "user", "userId", "name"} : localStorage'[k] = Null
          /\ Len(trace'.ev) = 1 /\ trace'.ev[1].name = "authChanged"
          /\ authDisplay' = "none" /\ guestDisplay' = ""
          /\ hash' = hash
          /\ redirectTimers' = redirectTimers + 1]_vars
  /\ [][hash' = Masuk /\ hash # Masuk =>
          trace'.op \in {"redirect", "hashchange"}]_vars
  /\ (trace.op = "logout") ~> (trace.op = "redirect" /\ hash = Masuk)

C27_Witness ==
  /\ trace.op = "redirect"
  /\ hash = Masuk
  /\ localStorage = LoggedOut
  /\ authDisplay = "none"
  /\ guestDisplay = ""
  /\ redirectTimers = 0

\* The alerts other than the one of identity id, in document order.
OtherAlerts(as, id) == SelectSeq(as, LAMBDA a : a.id # id)

\* C28: whatever showAlert and showSuccess calls are made on a rendered view,
\* the document holds at most one alert element; a fade-out or removal timer
\* leaves every alert but its own as it was; and every alert shown is
\* eventually out of the document.
C28_SingleAlert ==
  /\ [](Len(alerts) <= 1)
  /\ [][trace'.op = "alertTimer" =>
          \A tm \in alertTimers \ alertTimers' :
             OtherAlerts(alerts', tm.id) = OtherAlerts(alerts, tm.id)]_vars
  /\ \A id \in 0..(MaxAlerts - 1) :
        (\E k \in 1..Len(alerts) : alerts[k].id = id)
          ~> ~(\E k \in 1..Len(alerts) : alerts[k].id = id)

\* The fade-out timer of an alert that has been replaced runs while the later
\* alert is shown.
C28_Witness ==
  /\ trace.op = "alertTimer"
  /\ trace.target = "fade"
  /\ Len(alerts) = 1
  /\ alerts[1].id = 1
  /\ ~alerts[1].faded
  /\ [id |-> 0, stage |-> "remove"] \in alertTimers

\* C29: every invocation of _handleShareClick dispatches story-share-click
\* exactly once, and only after the share or clipboard call has settled,
\* whether that call resolved, was aborted or rejected; the handler never
\* rejects.
C29_ShareDispatchesOnce ==
  /\ [](trace.op # "shareThrew")
  /\ [][/\ trace'.op = "_handleShareClick" =>
             (trace'.ev = NoEvents /\ Len(shareCalls') = Len(shareCalls) + 1)
        /\ Len(shareCalls') < Len(shareCalls) =>
             /\ trace'.op = "shareDone"
             /\ Len(shareCalls') = Len(shareCalls) - 1
             /\ Len(trace'.ev) = 1
             /\ trace'.ev[1].name = "story-share-click"
             /\ trace'.ev[1].detail = _story
        /\ Len(shareCalls') = Len(shareCalls) =>
             (trace'.ev = NoEvents \/ trace'.op \notin {"shareDone", "_handleShareClick"})
       ]_vars

\* The clipboard fallback rejected, with a toast function on the page.
C29_Witness ==
  /\ trace.op = "shareDone"
  /\ trace.target = "clipboard"
  /\ Len(trace.ev) = 1
  /\ toast = "Gagal menyalin link"
  /\ shareCalls = <<>>

\* C30: when the store call of a favorite handler succeeds, the store is
\* changed as the state read at the click asked (add when inactive, remove
\* when active), the button is left in the opposite state, and exactly one
\* story-favorite-toggle is dispatched, with detail.isFavorited the new state
\* of the button and detail.story the card's story; without
\* window.indexedDBHelper the handler changes and dispatches nothing.
C30_FavoriteToggle ==
  [][/\ trace'.op = "favoriteDone" =>
          \E i \in 1..Len(favCalls) :
             LET c == favCalls[i]
             IN  /\ favCalls' = Remove(favCalls, i)
                 /\ store' = IF c.isFavorited THEN store \ {c.id}
                                               ELSE store \cup {c.id}
                 /\ c.live => dom'.favActive = ~c.isFavorited
                 /\ Len(trace'.ev) = 1
                 /\ trace'.ev[1].name = "story-favorite-toggle"
                 /\ trace'.ev[1].detail.isFavorited = ~c.isFavorited
                 /\ trace'.ev[1].detail.story = _story
     /\ (trace'.op = "_handleFavoriteClick" /\ ~helper) =>
          /\ trace'.ev = NoEvents
          /\ UNCHANGED <<dom, store, favCalls, toast, lastToggle, _story>>]_vars

C30_Witness ==
  /\ trace.op = "favoriteDone"
  /\ dom.kind = "card"
  /\ dom.favActive
  /\ trace.ev[1].detail.isFavorited
  /\ trace.ev[1].detail.story = _story
  /\ store = {StoryB.id}
  /\ favCalls = <<>>

=============================================================================
